---- MODULE Spec2Model ----
(***************************************************************************)
(* Model of the order-execution and position-protection core of the        *)
(* futures webhook bot: the position validator (position_validator.py),    *)
(* the TP/SL calculator (tp_sl_manager.py), the order flows of             *)
(* BinanceHandler (binance_handler.py) and the webhook layer (app.py).     *)
(*                                                                         *)
(* Prices and quantities are integers: a price is a number of price units  *)
(* (PriceStep units make one exchange tick), a quantity a number of        *)
(* quantity units (StepSize units make one lot step).  Time is in seconds. *)
(***************************************************************************)
EXTENDS Integers, Sequences, FiniteSets, TLC

\* ------------------------------------------------------------------------
\* Bounds of the model
\* ------------------------------------------------------------------------
MaxCalls == 2

\* ------------------------------------------------------------------------
\* Program constants
\* ------------------------------------------------------------------------
order_cooldown == 5
ledger_max_age == 60

\* ------------------------------------------------------------------------
\* Strings: str.lower() and str.upper() on the strings the model uses
\* ------------------------------------------------------------------------
Lower(s) ==
    CASE s = "LONG" -> "long"
      [] s = "SHORT" -> "short"
      [] s = "BOTH" -> "both"
      [] s = "OPEN" -> "open"
      [] s = "CLOSE" -> "close"
      [] s = "BTCUSDT" -> "btcusdt"
      [] s = "ETHUSDT" -> "ethusdt"
      [] OTHER -> s

Upper(s) ==
    CASE s = "long" -> "LONG"
      [] s = "short" -> "SHORT"
      [] s = "both" -> "BOTH"
      [] s = "btcusdt" -> "BTCUSDT"
      [] s = "ethusdt" -> "ETHUSDT"
      [] s = "buy" -> "BUY"
      [] s = "sell" -> "SELL"
      [] s = "mark_price" -> "MARK_PRICE"
      [] OTHER -> s

Abs(n) == IF n < 0 THEN -n ELSE n

\* ------------------------------------------------------------------------
\* Python values as JSON loads them: None, numbers, the floats Infinity and
\* NaN, strings, booleans, lists
\* ------------------------------------------------------------------------
PyNone == [kind |-> "none", num |-> 0, text |-> "", flag |-> FALSE]
PyNum(n) == [kind |-> "num", num |-> n, text |-> "", flag |-> FALSE]
PyInf == [kind |-> "inf", num |-> 0, text |-> "", flag |-> FALSE]
PyNaN == [kind |-> "nan", num |-> 0, text |-> "", flag |-> FALSE]
PyStr(t) == [kind |-> "str", num |-> 0, text |-> t, flag |-> FALSE]
PyBool(b) == [kind |-> "bool", num |-> 0, text |-> "", flag |-> b]
PyList == [kind |-> "list", num |-> 0, text |-> "", flag |-> FALSE]

\* What raised, "" when nothing did, and the value otherwise.
Value(v) == [raised |-> "", value |-> v]
Raised(e) == [raised |-> e, value |-> PyNone]

Symbols == {"BTCUSDT", "ETHUSDT"}
Directions == {"long", "short"}
Actions == {"open", "close"}

\* ------------------------------------------------------------------------
\* Exchange-reported positions (futures_position_information rows)
\* ------------------------------------------------------------------------
Pos(sym, side, amt, entry) ==
    [symbol |-> sym, positionSide |-> side, positionAmt |-> amt, entryPrice |-> entry]

\* A row some of whose fields hold text that is not a number: `text` names
\* those fields.  A row without `text` has numbers everywhere.
Text(pos, fields) ==
    [symbol |-> pos.symbol, positionSide |-> pos.positionSide,
     positionAmt |-> pos.positionAmt, entryPrice |-> pos.entryPrice,
     text |-> fields]

\* float(pos.get(field)) / int(pos.get(field)) raises ValueError.
NotNumeric(pos, field) == "text" \in DOMAIN pos /\ field \in pos.text

\* The lists of positions handed to the validator in the validator-only
\* specification: hedge-mode rows (LONG/SHORT), one-way rows (BOTH, signed
\* amount), a row of another symbol, a row of size zero, and rows with a
\* size, an entry price or a leverage that is not numeric.
PositionLists ==
    { << >>,
      << Pos("BTCUSDT", "LONG", 3, 100) >>,
      << Pos("BTCUSDT", "SHORT", -2, 100) >>,
      << Pos("BTCUSDT", "LONG", 3, 100), Pos("BTCUSDT", "SHORT", -2, 100) >>,
      << Pos("BTCUSDT", "BOTH", 3, 100) >>,
      << Pos("BTCUSDT", "BOTH", -2, 100) >>,
      << Pos("ETHUSDT", "LONG", 1, 100) >>,
      << Pos("ETHUSDT", "LONG", 1, 100), Pos("BTCUSDT", "SHORT", -2, 100) >>,
      << Pos("BTCUSDT", "LONG", 0, 0), Pos("BTCUSDT", "SHORT", -2, 100) >>,
      << Text(Pos("ETHUSDT", "LONG", 1, 100), {"positionAmt"}) >>,
      << Pos("BTCUSDT", "LONG", 3, 100),
         Text(Pos("BTCUSDT", "SHORT", -2, 100), {"entryPrice"}) >>,
      << Text(Pos("BTCUSDT", "LONG", 3, 100), {"leverage"}) >> }

\* ------------------------------------------------------------------------
\* PositionValidator
\* ------------------------------------------------------------------------
NoAction == [type |-> "none", positions_to_close |-> << >>]

\* f"{symbol}_{direction}_{action}"
OrderKey(symbol, direction, action) == << symbol, direction, action >>

\* A cooldown test that is one second short.
Mut_check_duplicate_order(ro, t, symbol, direction, action) ==
    LET order_key == OrderKey(symbol, direction, action) IN
    IF order_key \in DOMAIN ro /\ t - ro[order_key] < order_cooldown - 1
    THEN [allowed |-> FALSE, reason |-> "duplicate", action_required |-> NoAction]
    ELSE [allowed |-> TRUE, reason |-> "", action_required |-> NoAction]

\* PositionValidator._check_duplicate_order
_check_duplicate_order(ro, t, symbol, direction, action) ==
    LET order_key == OrderKey(symbol, direction, action) IN
    IF order_key \in DOMAIN ro /\ t - ro[order_key] < order_cooldown
    THEN [allowed |-> FALSE, reason |-> "duplicate", action_required |-> NoAction]
    ELSE [allowed |-> TRUE, reason |-> "", action_required |-> NoAction]

\* PositionValidator._analyze_symbol_positions
_analyze_symbol_positions(symbol, current_positions) ==
    LET keep(pos) == pos.symbol = symbol /\ Abs(pos.positionAmt) > 0
        kept == SelectSeq(current_positions, keep)
    IN [i \in 1..Len(kept) |->
          [symbol |-> kept[i].symbol,
           side |-> Lower(Upper(kept[i].positionSide)),
           size |-> Abs(kept[i].positionAmt),
           entry_price |-> kept[i].entryPrice]]

\* A conversion check that reads the size only.
Mut_analyze_raises(symbol, current_positions) ==
    \E i \in DOMAIN current_positions :
        NotNumeric(current_positions[i], "positionAmt")

\* PositionValidator._analyze_symbol_positions, the conversions that can
\* raise: float(positionAmt) for every row, float(entryPrice),
\* float(unrealizedProfit) and int(leverage) for the symbol's open rows.
_analyze_raises(symbol, current_positions) ==
    \E i \in DOMAIN current_positions :
        LET pos == current_positions[i] IN
        \/ NotNumeric(pos, "positionAmt")
        \/ /\ pos.symbol = symbol /\ Abs(pos.positionAmt) > 0
           /\ \/ NotNumeric(pos, "entryPrice")
              \/ NotNumeric(pos, "unrealizedProfit")
              \/ NotNumeric(pos, "leverage")

\* An open check that never looks at the auto-switch setting.
Mut_validate_open_position(symbol, direction, existing_positions, auto_position_switch) ==
    LET same(p) == p.side = Lower(direction)
        other(p) == p.side # Lower(direction)
    IN IF SelectSeq(existing_positions, same) # << >>
       THEN [allowed |-> FALSE, reason |-> "same_direction",
             action_required |-> NoAction]
       ELSE IF SelectSeq(existing_positions, other) # << >>
       THEN [allowed |-> TRUE, reason |-> "auto_switch",
             action_required |->
                 [type |-> "close_opposite",
                  positions_to_close |-> SelectSeq(existing_positions, other)]]
       ELSE [allowed |-> TRUE, reason |-> "no_positions",
             action_required |-> NoAction]

\* PositionValidator._validate_open_position
_validate_open_position(symbol, direction, existing_positions, auto_position_switch) ==
    LET same(p) == p.side = Lower(direction)
        other(p) == p.side # Lower(direction)
        same_direction_positions == SelectSeq(existing_positions, same)
        opposite_direction_positions == SelectSeq(existing_positions, other)
    IN IF same_direction_positions # << >>
       THEN [allowed |-> FALSE, reason |-> "same_direction",
             action_required |-> NoAction]
       ELSE IF opposite_direction_positions # << >>
       THEN IF ~auto_position_switch
            THEN [allowed |-> FALSE, reason |-> "auto_switch_disabled",
                  action_required |-> NoAction]
            ELSE [allowed |-> TRUE, reason |-> "auto_switch",
                  action_required |->
                      [type |-> "close_opposite",
                       positions_to_close |-> opposite_direction_positions]]
       ELSE [allowed |-> TRUE, reason |-> "no_positions",
             action_required |-> NoAction]

\* PositionValidator._validate_close_position
_validate_close_position(symbol, direction, existing_positions) ==
    LET match(p) == p.side = Lower(direction)
        matching_positions == SelectSeq(existing_positions, match)
    IN IF matching_positions = << >>
       THEN [allowed |-> FALSE, reason |-> "no_position_to_close",
             action_required |-> NoAction]
       ELSE [allowed |-> TRUE, reason |-> "found",
             action_required |->
                 [type |-> "close_positions",
                  positions_to_close |-> matching_positions]]

\* A recording that never cleans the ledger.
Mut_record_order_request(ro, t, symbol, direction, action) ==
    LET order_key == OrderKey(symbol, direction, action)
    IN [k \in DOMAIN ro \cup {order_key} |-> IF k = order_key THEN t ELSE ro[k]]

\* PositionValidator._record_order_request: store the request time, then
\* drop every entry older than one minute.
_record_order_request(ro, t, symbol, direction, action) ==
    LET order_key == OrderKey(symbol, direction, action)
        stored == [k \in DOMAIN ro \cup {order_key} |->
                      IF k = order_key THEN t ELSE ro[k]]
        keys_to_remove == {k \in DOMAIN stored : t - stored[k] > ledger_max_age}
    IN [k \in DOMAIN stored \ keys_to_remove |-> stored[k]]

\* A validation that stamps the ledger on a rejected duplicate as well.
Mut_validate_position_request(ro, t, symbol, direction, action, current_positions, auto_position_switch) ==
    LET duplicate_check == _check_duplicate_order(ro, t, symbol, direction, action)
        symbol_positions == _analyze_symbol_positions(symbol, current_positions)
        result ==
            IF action = "open"
            THEN _validate_open_position(symbol, direction, symbol_positions,
                                         auto_position_switch)
            ELSE IF action = "close"
            THEN _validate_close_position(symbol, direction, symbol_positions)
            ELSE [allowed |-> FALSE, reason |-> "invalid_action",
                  action_required |-> NoAction]
    IN IF ~duplicate_check.allowed
       THEN [result |-> duplicate_check,
             recent_orders |-> _record_order_request(ro, t, symbol, direction, action)]
       ELSE IF _analyze_raises(symbol, current_positions)
       THEN [result |-> [allowed |-> FALSE, reason |-> "validation_error",
                         action_required |-> NoAction],
             recent_orders |-> ro]
       ELSE [result |-> result,
             recent_orders |->
                 IF result.allowed
                 THEN _record_order_request(ro, t, symbol, direction, action)
                 ELSE ro]

\* PositionValidator.validate_position_request: the verdict and the ledger
\* the call leaves behind.  An exception raised after the duplicate check
\* is caught by the except clause around the whole body, which returns a
\* rejection carrying the exception text.
validate_position_request(ro, t, symbol, direction, action, current_positions, auto_position_switch) ==
    LET duplicate_check == _check_duplicate_order(ro, t, symbol, direction, action)
        symbol_positions == _analyze_symbol_positions(symbol, current_positions)
        result ==
            IF action = "open"
            THEN _validate_open_position(symbol, direction, symbol_positions,
                                         auto_position_switch)
            ELSE IF action = "close"
            THEN _validate_close_position(symbol, direction, symbol_positions)
            ELSE [allowed |-> FALSE, reason |-> "invalid_action",
                  action_required |-> NoAction]
    IN IF ~duplicate_check.allowed
       THEN [result |-> duplicate_check, recent_orders |-> ro]
       ELSE IF _analyze_raises(symbol, current_positions)
       THEN [result |-> [allowed |-> FALSE, reason |-> "validation_error",
                         action_required |-> NoAction],
             recent_orders |-> ro]
       ELSE [result |-> result,
             recent_orders |->
                 IF result.allowed
                 THEN _record_order_request(ro, t, symbol, direction, action)
                 ELSE ro]

\* ------------------------------------------------------------------------
\* State
\* ------------------------------------------------------------------------
VARIABLES
    recent_orders,  \* PositionValidator.recent_orders: order key -> time
    now,            \* time.time(), in seconds
    ncalls,         \* number of validation calls made so far
    vcall,          \* the last validate_position_request call: its arguments,
                    \* its time and the time the key was last approved before it
    vresult,        \* the result of that call
    approved_at     \* history: order key -> time of its last approval

vvars == << recent_orders, now, ncalls, vcall, vresult, approved_at >>

VARIABLES
    webhook_locks,  \* app.webhook_locks: lock key -> the thread holding that
                    \* key's Lock, 0 when it is free
    tpc,            \* each request thread's position in its handler
    treq,           \* each request thread's request
    webhook_locks_lock, \* app.webhook_locks_lock: the thread holding it, 0
                        \* when it is free
    locks_created   \* history: lock key -> the number of Lock objects
                    \* created for it

kvars == << webhook_locks_lock, locks_created >>

lvars == << webhook_locks, tpc, treq, kvars >>

VARIABLES
    wpositions,     \* the exchange's position rows, as the webhook layer's
                    \* deliveries find and change them
    deliveries      \* the standard signals delivered so far and what became
                    \* of each

wvars == << wpositions, deliveries >>

VARIABLES
    dualSidePosition,   \* the account's position mode at the exchange
    frame,              \* the running activation of place_order or
                        \* place_trailing_stop_strategy
    outer,              \* the activation that called it, for the nested
                        \* place_order of an auto position switch
    sent                \* every call sent to the exchange that changes
                        \* something there, in order

ovars == << dualSidePosition, frame, outer, sent >>

VARIABLES
    xpositions,             \* the {symbol, positionSide} keys that have an
                            \* open position at the exchange
    xorders,                \* the protective orders open at the exchange
    last_position_states,   \* BinanceHandler.last_position_states
    mpc                     \* the monitor thread's position in its loop

mvars == << xpositions, xorders, last_position_states, mpc >>

VARIABLES
    ccall,      \* the last get_coin_config call: its symbol and the flat
                \* config of its CoinConfigManager
    cresult,    \* what that call returned or raised
    multipliers \* the TP/SL multipliers calculate_tp_sl_prices resolves
                \* from the same config for the same symbol

cvars == << ccall, cresult, multipliers >>

VARIABLES
    tcall,      \* the last calculate_tp_sl_prices call: its arguments
    tresult     \* the (tp_price, sl_price) it returned

tvars == << tcall, tresult >>

vars == << vvars, lvars, wvars, ovars, mvars, cvars, tvars >>

\* What the actions of one layer leave alone.
others_V == << lvars, wvars, ovars, mvars, cvars, tvars >>
others_L == << vvars, wvars, ovars, mvars, cvars, tvars >>
others_W == << ncalls, vcall, vresult, approved_at, lvars, mvars, cvars, tvars >>
others_M == << vvars, lvars, wvars, ovars, cvars, tvars >>
others_C == << vvars, lvars, wvars, ovars, mvars, tvars >>
others_T == << vvars, lvars, wvars, ovars, mvars, cvars >>

NoCall ==
    [made |-> FALSE, symbol |-> "", direction |-> "", action |-> "",
     positions |-> << >>, auto |-> FALSE, time |-> 0, prior |-> -1]
NoResult == [allowed |-> FALSE, reason |-> "none", action_required |-> NoAction]

\* PositionValidator.__init__
InitValidator ==
    /\ recent_orders = << >>
    /\ now = 0
    /\ ncalls = 0
    /\ vcall = NoCall
    /\ vresult = NoResult
    /\ approved_at = << >>

\* One call of validate_position_request on the validator.
ValidateCall ==
    \E symbol \in Symbols, direction \in Directions, action \in Actions,
       current_positions \in PositionLists, auto \in BOOLEAN :
        LET key == OrderKey(symbol, direction, action)
            out == validate_position_request(recent_orders, now, symbol, direction,
                                             action, current_positions, auto)
        IN /\ ncalls < MaxCalls
           /\ ncalls' = ncalls + 1
           /\ vcall' = [made |-> TRUE, symbol |-> symbol, direction |-> direction,
                        action |-> action, positions |-> current_positions,
                        auto |-> auto, time |-> now,
                        prior |-> IF key \in DOMAIN approved_at
                                  THEN approved_at[key] ELSE -1]
           /\ vresult' = out.result
           /\ recent_orders' = out.recent_orders
           /\ approved_at' =
                 IF out.result.allowed
                 THEN [k \in DOMAIN approved_at \cup {key} |->
                          IF k = key THEN now ELSE approved_at[k]]
                 ELSE approved_at
           /\ UNCHANGED << now, others_V >>

\* Time passes between two calls: the clock moves to a later instant.  The
\* instants sit on both sides of the cooldown and of the cleanup age.
Instants == {0, 4, 5, 60, 61}

Tick ==
    \E t \in Instants :
        /\ t > now
        /\ now' = t
        /\ UNCHANGED << recent_orders, ncalls, vcall, vresult, approved_at, others_V >>

NextValidator == ValidateCall \/ Tick

\* ------------------------------------------------------------------------
\* The webhook layer's per-symbol locks (app.py)
\* ------------------------------------------------------------------------
NThreads == 2
Threads == 1..NThreads

\* place_trailing_stop_strategy's and _place_tp_sl_with_retry's max_retries.
max_retries == 3

\* The symbol strings a request can carry.
RawSymbols == {"BTCUSDT", "btcusdt", "BTCUSDT.P", "ETHUSDT"}

\* symbol.replace('.P', '').replace('.p', '')
StripP(s) ==
    CASE s = "BTCUSDT.P" -> "BTCUSDT"
      [] s = "btcusdt.p" -> "btcusdt"
      [] OTHER -> s

\* BinanceHandler._format_symbol; place_trailing_stop_strategy resolves its
\* symbol to the same string (upper, strip, '.P' removed).
_format_symbol(s) == Upper(StripP(s))

\* webhook, standard branch: the symbol of "SYMBOL/direction/action",
\* lowercased with the other parts, uppercased, '.P' removed.  Every raw
\* symbol of the model already ends in USDT, so no suffix is added.
SignalSymbol(raw) == StripP(Upper(Lower(raw)))

\* webhook, trailing-stop branch: data['symbol'] with '.P' removed.
TrailingSymbol(raw) == StripP(raw)

NoRequest == [kind |-> "none", symbol |-> "", attempt |-> 0, missing |-> FALSE]

InitLocks ==
    /\ webhook_locks = << >>
    /\ tpc = [t \in Threads |-> "idle"]
    /\ treq = [t \in Threads |-> NoRequest]
    /\ webhook_locks_lock = 0
    /\ locks_created = << >>

\* webhook: a standard signal is parsed; the thread goes on to its lock.
WebhookStandard(t) ==
    \E raw \in RawSymbols :
        /\ tpc[t] = "idle"
        /\ treq' = [treq EXCEPT ![t] = [kind |-> "standard", symbol |-> SignalSymbol(raw), attempt |-> 0, missing |-> FALSE]]
        /\ tpc' = [tpc EXCEPT ![t] = "get_lock"]
        /\ UNCHANGED << webhook_locks, kvars, others_L >>

\* webhook: a trailing-stop payload is prepared; the thread goes on to its
\* lock.
WebhookTrailing(t) ==
    \E raw \in RawSymbols :
        /\ tpc[t] = "idle"
        /\ treq' = [treq EXCEPT ![t] = [kind |-> "trailing", symbol |-> TrailingSymbol(raw), attempt |-> 0, missing |-> FALSE]]
        /\ tpc' = [tpc EXCEPT ![t] = "get_lock"]
        /\ UNCHANGED << webhook_locks, kvars, others_L >>

\* A map lock that never makes a thread wait.
Mut_MapLockFree(holder) == TRUE

\* `with webhook_locks_lock:` lets a thread in when no thread holds it.
MapLockFree(holder) == holder = 0

\* get_symbol_lock: the thread enters `with webhook_locks_lock:`.
EnterGetSymbolLock(t) ==
    /\ tpc[t] = "get_lock"
    /\ MapLockFree(webhook_locks_lock)
    /\ webhook_locks_lock' = t
    /\ tpc' = [tpc EXCEPT ![t] = "check_lock"]
    /\ UNCHANGED << webhook_locks, treq, locks_created, others_L >>

\* get_symbol_lock: `if symbol not in webhook_locks`.
CheckSymbolLock(t) ==
    /\ tpc[t] = "check_lock"
    /\ treq' = [treq EXCEPT ![t].missing = treq[t].symbol \notin DOMAIN webhook_locks]
    /\ tpc' = [tpc EXCEPT ![t] = "create_lock"]
    /\ UNCHANGED << webhook_locks, kvars, others_L >>

\* get_symbol_lock: `webhook_locks[symbol] = Lock()` when the check found
\* none, then `return webhook_locks[symbol]`, which leaves the with-block.
GetSymbolLock(t) ==
    /\ tpc[t] = "create_lock"
    /\ webhook_locks' =
          IF ~treq[t].missing
          THEN webhook_locks
          ELSE [k \in DOMAIN webhook_locks \cup {treq[t].symbol} |->
                   IF k = treq[t].symbol THEN 0 ELSE webhook_locks[k]]
    /\ locks_created' =
          IF ~treq[t].missing
          THEN locks_created
          ELSE [k \in DOMAIN locks_created \cup {treq[t].symbol} |->
                   IF k = treq[t].symbol
                   THEN (IF k \in DOMAIN locks_created THEN locks_created[k] ELSE 0) + 1
                   ELSE locks_created[k]]
    /\ webhook_locks_lock' = IF webhook_locks_lock = t THEN 0 ELSE webhook_locks_lock
    /\ tpc' = [tpc EXCEPT ![t] = "acquire"]
    /\ UNCHANGED << treq, others_L >>

\* with symbol_lock: the thread blocks until the Lock is free, then enters
\* process_signal / place_trailing_stop_strategy.
AcquireSymbolLock(t) ==
    /\ tpc[t] = "acquire"
    /\ webhook_locks[treq[t].symbol] = 0
    /\ webhook_locks' = [webhook_locks EXCEPT ![treq[t].symbol] = t]
    /\ tpc' = [tpc EXCEPT ![t] = "validating"]
    /\ UNCHANGED << treq, kvars, others_L >>

\* close_position (dashboard): place_order is called straight away, under no
\* lock.  The form carries the symbol of a listed position.
ClosePosition(t) ==
    \E symbol \in Symbols :
        /\ tpc[t] = "idle"
        /\ treq' = [treq EXCEPT ![t] = [kind |-> "close", symbol |-> symbol, attempt |-> 0, missing |-> FALSE]]
        /\ tpc' = [tpc EXCEPT ![t] = "validating"]
        /\ UNCHANGED << webhook_locks, kvars, others_L >>

\* validate_position_request approved the request after reading
\* recent_orders in _check_duplicate_order; the thread is now in
\* _record_order_request, which stores the key and then iterates over
\* recent_orders to delete the old ones.  The validator takes no lock.
RecordOrderRequest(t) ==
    /\ tpc[t] = "validating"
    /\ tpc' = [tpc EXCEPT ![t] = "recording"]
    /\ UNCHANGED << webhook_locks, treq, kvars, others_L >>

\* The placement sequence moves from validation and the main order on to
\* its protective orders.
PlaceMainOrder(t) ==
    /\ tpc[t] = "recording"
    /\ tpc' = [tpc EXCEPT ![t] = "protecting"]
    /\ UNCHANGED << webhook_locks, treq, kvars, others_L >>

\* One pass of a protective order's retry loop (`for attempt in
\* range(max_retries)`): an exchange call that was refused.
ProtectiveAttempt(t) ==
    /\ tpc[t] = "protecting"
    /\ treq[t].attempt < max_retries
    /\ treq' = [treq EXCEPT ![t].attempt = @ + 1]
    /\ UNCHANGED << webhook_locks, tpc, kvars, others_L >>

\* A with-block that is left with the Lock still held.
Mut_FinishPlacement(t) ==
    /\ tpc[t] \in {"validating", "recording", "protecting"}
    /\ webhook_locks' = webhook_locks
    /\ tpc' = [tpc EXCEPT ![t] = "idle"]
    /\ treq' = [treq EXCEPT ![t] = NoRequest]
    /\ UNCHANGED << kvars, others_L >>

\* The placement sequence returns (from any of its steps); a webhook thread
\* leaves its with-block, which releases the symbol's Lock.
FinishPlacement(t) ==
    /\ tpc[t] \in {"validating", "recording", "protecting"}
    /\ webhook_locks' =
          IF treq[t].kind = "close"
          THEN webhook_locks
          ELSE [webhook_locks EXCEPT ![treq[t].symbol] = 0]
    /\ tpc' = [tpc EXCEPT ![t] = "idle"]
    /\ treq' = [treq EXCEPT ![t] = NoRequest]
    /\ UNCHANGED << kvars, others_L >>

NextLocks ==
    \E t \in Threads :
        \/ WebhookStandard(t)
        \/ WebhookTrailing(t)
        \/ EnterGetSymbolLock(t)
        \/ CheckSymbolLock(t)
        \/ GetSymbolLock(t)
        \/ AcquireSymbolLock(t)
        \/ ClosePosition(t)
        \/ RecordOrderRequest(t)
        \/ PlaceMainOrder(t)
        \/ ProtectiveAttempt(t)
        \/ FinishPlacement(t)

\* ------------------------------------------------------------------------
\* Standard signals through the webhook (app.py webhook, load_config,
\* process_signal; binance_handler.py place_order up to the entry order).
\* recent_orders is the ledger of the PositionValidator of the handler that
\* the global binance_handler names.
\* ------------------------------------------------------------------------
MaxDeliveries == 2
max_open_positions == 5
EntryQty == 1

InitWebhook ==
    /\ wpositions = << >>
    /\ deliveries = << >>

\* load_config: when the API keys are set a new BinanceHandler, with a new
\* PositionValidator and an empty ledger, replaces the global handler; when
\* its construction raises the old handler stays.
load_config(ro, created) == IF created THEN << >> ELSE ro

\* get_open_positions: the exchange's rows, [] when the query raises.
get_open_positions(rows, seen) == IF seen THEN rows ELSE << >>

\* The exchange's rows after it has filled a market order.
Filled(rows, symbol, direction, action) ==
    LET others == SelectSeq(rows, LAMBDA p : ~(p.symbol = symbol /\ Lower(p.positionSide) = direction))
    IN  IF action = "open"
        THEN Append(others, Pos(symbol, Upper(direction), IF direction = "long" THEN EntryQty ELSE -EntryQty, 100))
        ELSE others

\* place_order's loop over positions_to_close: each is a nested place_order
\* (symbol, close_<side>) that reads the positions, validates, and sends its
\* market order; the first failure ends the outer call.
RECURSIVE CloseOpposite(_, _, _, _, _, _, _, _)
CloseOpposite(ro, t, symbol, todo, rows, seen, auto, accepted) ==
    IF todo = << >>
    THEN [ok |-> TRUE, recent_orders |-> ro, rows |-> rows, orders |-> 0]
    ELSE LET v == validate_position_request(ro, t, symbol, todo[1].side, "close", get_open_positions(rows, seen), auto)
         IN  IF ~v.result.allowed
             THEN [ok |-> FALSE, recent_orders |-> v.recent_orders, rows |-> rows, orders |-> 0]
             ELSE IF ~accepted
             THEN [ok |-> FALSE, recent_orders |-> v.recent_orders, rows |-> rows, orders |-> 1]
             ELSE LET rest == CloseOpposite(v.recent_orders, t, symbol, Tail(todo), Filled(rows, symbol, todo[1].side, "close"), seen, auto, accepted)
                  IN  [rest EXCEPT !.orders = @ + 1]

\* process_signal and place_order for one standard signal: what the
\* delivery is answered with, the ledger and the positions it leaves, the
\* number of market orders it sent and how many of them were entries.
\* current_positions is every open position of the account: `others` of
\* them are in other symbols.
process_signal(ro, t, symbol, direction, action, rows, env) ==
    LET ledger == load_config(ro, env.created)
        v == validate_position_request(ledger, t, symbol, direction, action, get_open_positions(rows, env.seen_order), env.auto)
        closes == IF v.result.action_required.type = "close_opposite"
                  THEN CloseOpposite(v.recent_orders, t, symbol, v.result.action_required.positions_to_close, rows, env.seen_close, env.auto, env.accepted)
                  ELSE [ok |-> TRUE, recent_orders |-> v.recent_orders, rows |-> rows, orders |-> 0]
        entries == IF action = "open" THEN 1 ELSE 0
        out(allowed, reason, l, r, n, e) == [allowed |-> allowed, reason |-> reason, recent_orders |-> l, rows |-> r, orders |-> n, entries |-> e]
    IN  IF action = "open" /\ Len(get_open_positions(rows, env.seen_limit)) + (IF env.seen_limit THEN env.others ELSE 0) >= max_open_positions
        THEN out(FALSE, "max_positions", ledger, rows, 0, 0)
        ELSE IF ~env.leverage_ok
        THEN out(FALSE, "leverage_failed", ledger, rows, 0, 0)
        ELSE IF ~v.result.allowed
        THEN out(FALSE, v.result.reason, v.recent_orders, rows, 0, 0)
        ELSE IF ~closes.ok
        THEN out(TRUE, "close_opposite_failed", closes.recent_orders, closes.rows, closes.orders, 0)
        ELSE IF ~env.accepted
        THEN out(TRUE, "order_error", closes.recent_orders, closes.rows, closes.orders + 1, entries)
        ELSE out(TRUE, "ok", closes.recent_orders, Filled(closes.rows, symbol, direction, action), closes.orders + 1, entries)

\* The webhook's trailing-stop branch for one payload: load_config, then
\* place_trailing_stop_strategy, which validates, closes what the validator
\* lists, sets the leverage and sends its entry order.  The entry is the
\* order of the payload's side whatever its action is.
trailing_signal(ro, t, symbol, direction, action, rows, env) ==
    LET ledger == load_config(ro, env.created)
        v == validate_position_request(ledger, t, symbol, direction, action, get_open_positions(rows, env.seen_order), env.auto)
        closes == IF v.result.action_required.type = "close_opposite"
                  THEN CloseOpposite(v.recent_orders, t, symbol, v.result.action_required.positions_to_close, rows, env.seen_close, env.auto, env.accepted)
                  ELSE [ok |-> TRUE, recent_orders |-> v.recent_orders, rows |-> rows, orders |-> 0]
        out(allowed, reason, l, r, n, e) == [allowed |-> allowed, reason |-> reason, recent_orders |-> l, rows |-> r, orders |-> n, entries |-> e]
    IN  IF ~v.result.allowed
        THEN out(FALSE, v.result.reason, v.recent_orders, rows, 0, 0)
        ELSE IF ~closes.ok
        THEN out(TRUE, "close_opposite_failed", closes.recent_orders, closes.rows, closes.orders, 0)
        ELSE IF ~env.leverage_ok
        THEN out(TRUE, "leverage_failed", closes.recent_orders, closes.rows, closes.orders, 0)
        ELSE IF ~env.accepted
        THEN out(TRUE, "order_error", closes.recent_orders, closes.rows, closes.orders + 1, 1)
        ELSE out(TRUE, "ok", closes.recent_orders, Filled(closes.rows, symbol, direction, "open"), closes.orders + 1, 1)

\* What a delivery meets outside the program: whether a handler
\* construction succeeded in either load_config, whether each position
\* query answered, whether the leverage call and the market orders were
\* accepted, and the auto_position_switch setting.
Outcomes ==
    [created : BOOLEAN, seen_limit : BOOLEAN, seen_order : BOOLEAN, seen_close : BOOLEAN, leverage_ok : BOOLEAN, accepted : BOOLEAN, auto : BOOLEAN]

\* The outcome in which nothing outside the program fails and the handler
\* stays.
QuietOutcomes ==
    {e \in Outcomes : ~e.created /\ e.seen_limit /\ e.seen_order /\ e.seen_close /\ e.leverage_ok /\ e.accepted /\ e.auto}

\* An outcome together with the two master signal filters of the config
\* and the number of positions open in other symbols.
Env(e, allow_long_only, allow_short_only, others) ==
    [created |-> e.created, seen_limit |-> e.seen_limit, seen_order |-> e.seen_order, seen_close |-> e.seen_close,
     leverage_ok |-> e.leverage_ok, accepted |-> e.accepted, auto |-> e.auto,
     allow_long_only |-> allow_long_only, allow_short_only |-> allow_short_only, others |-> others]

\* The quiet outcome with the default settings, with one of the two
\* filters set, and with max_open_positions positions in other symbols.
QuietEnvironments ==
    {Env(e, l, FALSE, 0) : e \in QuietOutcomes, l \in BOOLEAN}
    \cup {Env(e, FALSE, TRUE, 0) : e \in QuietOutcomes}
    \cup {Env(e, FALSE, FALSE, max_open_positions) : e \in QuietOutcomes}

\* The environments of the standard deliveries: every outcome with the
\* filters off and no other position, and the quiet environments.
Environments ==
    {Env(e, FALSE, FALSE, 0) : e \in Outcomes} \cup QuietEnvironments

\* A setting that is not the default is drawn for the deliveries it bears
\* on: a filter for the direction it excludes, the positions in other
\* symbols for an open.
BearsOn(env, direction, action) ==
    /\ env.allow_long_only => direction = "short"
    /\ env.allow_short_only => direction = "long"
    /\ env.others > 0 => action = "open"

\* webhook, "Master signal filters": an open against a filter that is set
\* is answered 'filtered'.
Filtered(env, direction, action) ==
    /\ action = "open"
    /\ \/ env.allow_long_only /\ direction = "short"
       \/ env.allow_short_only /\ direction = "long"

\* What a delivery leaves in the history.
Delivery(flow, direction, action, env, rows, answer, r) ==
    [flow |-> flow, symbol |-> "BTCUSDT", direction |-> direction, action |-> action, time |-> now,
     allow_long_only |-> env.allow_long_only, allow_short_only |-> env.allow_short_only,
     open_before |-> Len(rows) + env.others, answer |-> answer,
     allowed |-> r.allowed, reason |-> r.reason, orders |-> r.orders, entries |-> r.entries]

\* webhook, standard branch: one delivery of "BTCUSDT/<direction>/<action>".
\* A filtered delivery ends after the webhook's load_config.
WebhookSignal ==
    \E direction \in Directions, action \in Actions, env \in Environments :
        /\ Len(deliveries) < MaxDeliveries
        /\ BearsOn(env, direction, action)
        /\ LET r == process_signal(recent_orders, now, "BTCUSDT", direction, action, wpositions, env)
               none == [allowed |-> FALSE, reason |-> "filtered", orders |-> 0, entries |-> 0]
           IN  IF Filtered(env, direction, action)
               THEN /\ recent_orders' = load_config(recent_orders, env.created)
                    /\ wpositions' = wpositions
                    /\ deliveries' = Append(deliveries, Delivery("standard", direction, action, env, wpositions, "filtered", none))
               ELSE /\ recent_orders' = r.recent_orders
                    /\ wpositions' = r.rows
                    /\ deliveries' = Append(deliveries, Delivery("standard", direction, action, env, wpositions,
                                                                IF r.reason = "ok" THEN "success" ELSE "error", r))
        /\ UNCHANGED << now, others_W, ovars >>

\* webhook, trailing-stop branch: one delivery of a payload for BTCUSDT
\* with side BUY (long) or SELL (short), in a quiet environment.
WebhookTrailingSignal ==
    \E direction \in Directions, action \in Actions, env \in QuietEnvironments :
        /\ Len(deliveries) < MaxDeliveries
        /\ BearsOn(env, direction, action)
        /\ LET r == trailing_signal(recent_orders, now, "BTCUSDT", direction, action, wpositions, env)
           IN  /\ recent_orders' = r.recent_orders
               /\ wpositions' = r.rows
               /\ deliveries' = Append(deliveries, Delivery("trailing", direction, action, env, wpositions,
                                                           IF r.reason = "ok" THEN "success" ELSE "error", r))
        /\ UNCHANGED << now, others_W, ovars >>

NextWebhook == WebhookSignal \/ WebhookTrailingSignal \/ Tick

\* ------------------------------------------------------------------------
\* Order placement (binance_handler.py place_order and
\* place_trailing_stop_strategy; tp_sl_manager.py).
\* Prices are integers in units of 0.01; quantities are integers in units
\* of 0.0001; a callbackRate is an integer in units of 0.01 percent.
\* ------------------------------------------------------------------------

\* Python's round(n / d) for integers n and d > 0: to the nearest integer,
\* a half to the even neighbour.
RoundDiv(n, d) ==
    LET q == n \div d
        r == n % d
    IN  IF 2 * r < d THEN q
        ELSE IF 2 * r > d THEN q + 1
        ELSE IF q % 2 = 0 THEN q ELSE q + 1

\* TPSLManager._round_to_price_step's table: 0.1 for BTCUSDT, 0.01 for
\* ETHUSDT and for a symbol the table does not list.
price_step(symbol) == IF Upper(symbol) = "BTCUSDT" THEN 10 ELSE 1

\* TPSLManager._round_to_price_step, for a price given in tenths of a unit:
\* the nearest multiple of the step, and the step itself when that is not
\* positive.
_round_to_price_step(symbol, price10) ==
    LET rounded_price == RoundDiv(price10, 10 * price_step(symbol)) * price_step(symbol)
    IN  IF rounded_price <= 0 THEN price_step(symbol) ELSE rounded_price

\* The default multipliers 2.5 and 3.0, in tenths.
default_tp_multiplier == 25
default_sl_multiplier == 30

\* A calculation that gives a short the prices of a long.
Mut_calculate_tp_sl_prices(coin_symbol, current_price, atr_value, position_side) ==
    [tp_price |-> _round_to_price_step(coin_symbol, 10 * current_price + atr_value * default_tp_multiplier),
     sl_price |-> _round_to_price_step(coin_symbol, 10 * current_price - atr_value * default_sl_multiplier)]

\* TPSLManager.calculate_tp_sl_prices with the default multipliers.  Both
\* prices come out of _round_to_price_step positive, so the ValueError for a
\* non-positive price cannot be raised.
calculate_tp_sl_prices(coin_symbol, current_price, atr_value, position_side) ==
    IF Lower(position_side) = "long"
    THEN [tp_price |-> _round_to_price_step(coin_symbol, 10 * current_price + atr_value * default_tp_multiplier),
          sl_price |-> _round_to_price_step(coin_symbol, 10 * current_price - atr_value * default_sl_multiplier)]
    ELSE [tp_price |-> _round_to_price_step(coin_symbol, 10 * current_price - atr_value * default_tp_multiplier),
          sl_price |-> _round_to_price_step(coin_symbol, 10 * current_price + atr_value * default_sl_multiplier)]

Mut_validate_tp_sl_logic(coin_symbol, position_side, entry_price, tp_price, sl_price) ==
    TRUE

\* TPSLManager.validate_tp_sl_logic.
validate_tp_sl_logic(coin_symbol, position_side, entry_price, tp_price, sl_price) ==
    IF Lower(position_side) = "long"
    THEN ~(tp_price <= entry_price) /\ ~(sl_price >= entry_price)
    ELSE IF Lower(position_side) = "short"
    THEN ~(tp_price >= entry_price) /\ ~(sl_price <= entry_price)
    ELSE TRUE

\* The LOT_SIZE filter the exchange reports for the symbol: stepSize 0.001,
\* minQty 0.001, maxQty 0.1.
step_size == 10
min_qty == 10
max_qty == 1000

\* BinanceHandler._round_quantity_to_precision: with the LOT_SIZE filter,
\* the nearest multiple of the step, raised to minQty and lowered to maxQty;
\* without it (symbol or filter not found, or the query raised),
\* round(quantity, 3).
_round_quantity_to_precision(quantity, lot_size_found) ==
    IF lot_size_found
    THEN LET rounded == RoundDiv(quantity, step_size) * step_size
             raised == IF rounded < min_qty THEN min_qty ELSE rounded
         IN  IF raised > max_qty THEN max_qty ELSE raised
    ELSE RoundDiv(quantity, 10) * 10

\* BinanceHandler._get_position_mode: dualSidePosition as the exchange
\* reports it, False when the query raises.
Mut_get_position_mode(dual, answered) == dual

_get_position_mode(dual, answered) == IF answered THEN dual ELSE FALSE

\* "Only add positionSide if in Hedge mode".
PositionSideKey(is_hedge_mode, position_side) == IF is_hedge_mode THEN position_side ELSE ""

\* An order sent to the exchange.  positionSide is "" when the payload has
\* no such key; stopPrice, callbackRate and activationPrice are 0 when it
\* has none.  The fields from intent on are not part of the payload, they
\* record how it came about: the direction the flow was serving, the entry
\* price a TP/SL pair was derived from, the raw quantity a market order's
\* quantity was rounded from, the account's mode when the order was sent,
\* whether the flow's last position-mode query had been answered, and the
\* exchange's answer.
BasePayload ==
    [type |-> "", side |-> "", quantity |-> 0, stopPrice |-> 0, callbackRate |-> 0, activationPrice |-> 0, closePosition |-> FALSE, positionSide |-> "", workingType |-> "", intent |-> "", entry |-> 0, raw |-> 0, dual |-> FALSE, answered |-> FALSE, accepted |-> FALSE, nan |-> FALSE, answer |-> ""]

\* The record of the circumstances an order is sent in.
Stamp(payload, dual, answered) == [payload EXCEPT !.dual = dual, !.answered = answered]

\* The types of the calls that change something at the exchange without
\* being orders.
SettingTypes == {"LEVERAGE", "MARGIN_TYPE", "POSITION_MODE"}

Setting(type, accepted) == [BasePayload EXCEPT !.type = type, !.accepted = accepted]

\* What a flow returns.  error is "" for a result without an error key,
\* warning is "" for one without a warning key.
Mut_Result(success, error, warning) == [success |-> TRUE, error |-> "", warning |-> warning]

Result(success, error, warning) == [success |-> success, error |-> error, warning |-> warning]

\* One activation of place_order or place_trailing_stop_strategy: its
\* position, its arguments and its local variables.  quantity 0 is
\* quantity=None; stop_given is FALSE when stop_loss_price is None.
NoFrame ==
    [pc |-> "none", flow |-> "", trading |-> "on", symbol |-> "", direction |-> "", action |-> "", quantity |-> 0,
     is_hedge_mode |-> FALSE, mode_answered |-> FALSE, todo |-> << >>, callback_rate |-> 0, activation_price |-> 0, stop_given |-> FALSE,
     stop_loss_price |-> 0, executed_qty |-> 0, entry_accepted |-> FALSE, attempt |-> 0, tiers |-> {},
     klines |-> -1, atr |-> -1, notified |-> 0, notify_raised |-> FALSE, listed |-> << >>,
     callback_input |-> PyNum(0), level_text |-> {}, level_nan |-> {}, working_type_input |-> "", working_type |-> "",
     result |-> Result(FALSE, "", "")]

\* The account and its positions as a flow can find them: a hedge-mode
\* account reports LONG and SHORT rows, a one-way account one BOTH row whose
\* sign is its direction.
Accounts ==
    { [dual |-> TRUE,  rows |-> << >>],
      [dual |-> TRUE,  rows |-> << Pos("BTCUSDT", "LONG", 30, 1000) >>],
      [dual |-> TRUE,  rows |-> << Pos("BTCUSDT", "SHORT", -20, 1000) >>],
      [dual |-> FALSE, rows |-> << >>],
      [dual |-> FALSE, rows |-> << Pos("BTCUSDT", "BOTH", 30, 1000) >>],
      [dual |-> FALSE, rows |-> << Pos("BTCUSDT", "BOTH", -20, 1000) >>] }

\* enable_trading and <coin>_enable_trading of the handler's config.
TradingSettings == {"on", "off", "coin_off"}

\* A flow that reads only the global switch.
Mut_TradingEnabled(trading) == trading # "off"

\* The two checks that open place_order and place_trailing_stop_strategy:
\* config.get('enable_trading', False), then
\* coin_config_manager.is_trading_enabled(symbol).
TradingEnabled(trading) == trading = "on"

\* Payload values: callbackRate 0 (absent), 0.05, 0.1, 5.0, 6.0;
\* activationPrice 0 (absent) and 900, which is on a short's profit side and
\* on a long's loss side; stopLoss absent, -5, and 900, which is on a long's
\* loss side and on a short's profit side.
CallbackRates == {0, 5, 10, 500, 600}

\* float(data.get('callbackRate', 0)), the rate in units of 0.01 %: a
\* number is itself, "1.5" is 1.5, "1.5%" is no float.
RateFloat(x) ==
    CASE x.kind = "num" -> Value(x)
      [] x.kind = "str" /\ x.text = "1.5" -> Value(PyNum(150))
      [] x.kind = "str" -> Raised("ValueError")
      [] OTHER -> Raised("TypeError")

\* The forms a callbackRate of 1.5 arrives in, and the workingType values
\* a request carries ("" for a request without the key).
RateForms == {PyNum(150), PyStr("1.5"), PyStr("1.5%")}
WorkingTypes == {"CONTRACT_PRICE", "INVALID_TYPE", "mark_price"}
ActivationPrices == {0, 900}
StopLosses == { [given |-> FALSE, value |-> 0], [given |-> TRUE, value |-> -5], [given |-> TRUE, value |-> 900] }

\* What the exchange answers: the ticker price, the raw quantities sizing
\* arrives at (0.0004, 0.0016, 0.0025), the entry prices place_order ends
\* up with (0 when every source failed), the ATR values.
MarketPrice == 1000
RawQuantities == {4, 16, 25}
EntryPrices == {0, MarketPrice}
ATRs == {0, 1, 8, 400}

\* The numbers of 1h candles futures_klines can return for the default
\* period: one short of the required minimum, and the minimum.
default_atr_period == 14
Candles == {default_atr_period + 9, default_atr_period + 10}

\* A candle check that asks for one candle less.
Mut_get_atr(period, klines, computed) ==
    LET p == IF period < 1 \/ period > 100 THEN 14 ELSE period
        min_required == p + 9
    IN IF klines = 0 \/ klines < min_required \/ computed <= 0 THEN 0 ELSE computed

\* BinanceHandler.get_atr: 0.0 for no candles, for fewer than period + 10
\* candles and for a computed value that is not positive; `computed` is
\* the Wilder average of the candles' true ranges.
get_atr(period, klines, computed) ==
    LET p == IF period < 1 \/ period > 100 THEN 14 ELSE period
        min_required == p + 10
    IN IF klines = 0 \/ klines < min_required \/ computed <= 0 THEN 0 ELSE computed

InitOrders ==
    /\ dualSidePosition = FALSE
    /\ frame = NoFrame
    /\ outer = NoFrame
    /\ sent = << >>

\* process_signal (or the dashboard's close_position) calls
\* place_order(symbol, "<action>_<direction>").
StandardSignal ==
    \E direction \in Directions, action \in Actions, account \in Accounts, trading \in TradingSettings :
        /\ frame.pc = "none"
        /\ frame' = [NoFrame EXCEPT !.pc = "po_start", !.flow = "standard", !.trading = trading,
                                    !.symbol = "BTCUSDT", !.direction = direction, !.action = action]
        /\ dualSidePosition' = account.dual
        /\ wpositions' = account.rows
        /\ UNCHANGED << outer, sent, recent_orders, now, deliveries, others_W >>

\* The price levels of a trailing-stop request; `text` names those whose
\* value is the string "invalid".
LevelNames == {"activationPrice", "stopLoss"}

\* The callbackRate and workingType of the trailing-stop requests: every
\* numeric rate without a workingType, the three forms of 1.5 without a
\* workingType, an in-band numeric rate with each workingType, and an
\* in-band numeric rate with a level that is not numeric (`text`), and an
\* in-band numeric rate with a level that is NaN (`nan`: the JSON literal
\* NaN or the string "NaN", which float() turns into nan).  The
\* requests that are not plain are BUY/open requests with no
\* activationPrice and no stopLoss, with trading on.
TrailingInputs ==
    {[callbackRate |-> PyNum(r), workingType |-> "", text |-> {}, nan |-> {}, plain |-> TRUE] : r \in CallbackRates}
    \cup {[callbackRate |-> x, workingType |-> "", text |-> {}, nan |-> {}, plain |-> FALSE] : x \in RateForms}
    \cup {[callbackRate |-> PyNum(10), workingType |-> w, text |-> {}, nan |-> {}, plain |-> FALSE] : w \in WorkingTypes}
    \cup {[callbackRate |-> PyNum(10), workingType |-> "", text |-> {level}, nan |-> {}, plain |-> FALSE] : level \in LevelNames}
    \cup {[callbackRate |-> PyNum(10), workingType |-> "", text |-> {}, nan |-> {level}, plain |-> FALSE] : level \in LevelNames}

\* webhook, trailing-stop branch: a missing workingType becomes MARK_PRICE,
\* then place_trailing_stop_strategy(data) is called.
TrailingPayload ==
    \E side \in {"BUY", "SELL"}, action \in Actions, account \in Accounts, trading \in TradingSettings,
       data \in TrailingInputs, activationPrice \in ActivationPrices, stopLoss \in StopLosses :
        /\ frame.pc = "none"
        /\ \/ data.plain
           \/ /\ activationPrice = 0 /\ ~stopLoss.given /\ trading = "on"
              /\ side = "BUY" /\ action = "open"
        /\ frame' = [NoFrame EXCEPT !.pc = "ts_start", !.flow = "trailing", !.trading = trading,
                                    !.symbol = "BTCUSDT", !.direction = IF side = "BUY" THEN "long" ELSE "short",
                                    !.action = action, !.callback_input = data.callbackRate,
                                    !.level_text = data.text, !.level_nan = data.nan,
                                    !.working_type_input = data.workingType,
                                    !.working_type = IF data.workingType = "" THEN "MARK_PRICE"
                                                     ELSE data.workingType,
                                    !.activation_price = activationPrice,
                                    !.stop_given = stopLoss.given, !.stop_loss_price = stopLoss.value]
        /\ dualSidePosition' = account.dual
        /\ wpositions' = account.rows
        /\ UNCHANGED << outer, sent, recent_orders, now, deliveries, others_W >>

\* return <result> from the current activation.
Return(f, result) == [f EXCEPT !.pc = "return", !.result = result]

\* An exception that leaves the entry point instead of becoming its result.
Mut_Caught(f, error) == [f EXCEPT !.pc = "raised"]

\* The handler that closes each entry point's try block: the exception is
\* logged and a result carrying its text is returned.
Caught(f, error) == Return(f, Result(FALSE, error, ""))

\* A notification whose failure becomes the call's result.
Mut_Notify(f, order_result, raised) ==
    Return([f EXCEPT !.notified = @ + 1, !.notify_raised = raised],
           IF raised THEN Result(FALSE, "notification_error", "") ELSE order_result)

\* place_order's last step: _send_enhanced_notification is called inside a
\* try block of its own, whatever it raises is logged, and order_result is
\* returned.
Notify(f, order_result, raised) ==
    Return([f EXCEPT !.notified = @ + 1, !.notify_raised = raised], order_result)

\* _set_position_mode(hedge_mode=True): the mode after it.  The change is
\* asked for only when the account is one-way, and the exchange refuses it
\* while a position is open.
_set_position_mode(dual, rows, granted) == dual \/ (granted /\ rows = << >>)

\* What the exchange answers to futures_change_leverage and to
\* futures_change_margin_type: the change, "no need to change", or another
\* error.
SettingAnswerKinds == {"ok", "already_set", "error"}

\* BinanceHandler.set_leverage: the response, {"message": "Already set"}
\* for an error that says the leverage needs no change, None for any other
\* error; the callers test the result for truth.
set_leverage(answer) == answer # "error"

\* BinanceHandler.set_margin_type: the response, {'status': 'already_set'}
\* for error -4046, None for any other error.
set_margin_type(answer) == answer # "error"

\* The answers to the two calls of one activation.  The answers other than
\* a plain success and a failed leverage are drawn for a standard signal
\* that opens a long and for a trailing request that opens a long and
\* carries workingType CONTRACT_PRICE.
SettingAnswers(f) ==
    {[leverage |-> "ok", margin |-> "ok"], [leverage |-> "error", margin |-> "ok"]}
    \cup (IF /\ f.direction = "long" /\ f.action = "open"
             /\ f.flow = "standard" \/ (f.flow = "trailing" /\ f.working_type_input = "CONTRACT_PRICE")
          THEN {[leverage |-> "already_set", margin |-> "already_set"], [leverage |-> "ok", margin |-> "error"]}
          ELSE {})

\* The setting calls one activation makes before its entry order: leverage,
\* then (the leverage result truthy) margin type, whose failure is only
\* logged, and, when the account is one-way, the position mode.
Settings(answers, dual, dual_after) ==
    IF ~set_leverage(answers.leverage)
    THEN << [Setting("LEVERAGE", FALSE) EXCEPT !.answer = answers.leverage] >>
    ELSE << [Setting("LEVERAGE", TRUE) EXCEPT !.answer = answers.leverage],
            [Setting("MARGIN_TYPE", set_margin_type(answers.margin)) EXCEPT !.answer = answers.margin] >>
         \o (IF dual THEN << >> ELSE << Setting("POSITION_MODE", dual_after) >>)

\* place_order from its start to the validator's verdict: the trading
\* switches, leverage, margin type, position mode, the open positions, and
\* validate_position_request.
PO_Prepare ==
    \E answers \in SettingAnswers(frame), granted, answered, seen, auto \in BOOLEAN :
        /\ frame.pc = "po_start"
        /\ LET leverage_ok == set_leverage(answers.leverage)
               dual_after == _set_position_mode(dualSidePosition, wpositions, granted)
               v == validate_position_request(recent_orders, now, frame.symbol, frame.direction, frame.action, get_open_positions(wpositions, seen), auto)
               todo == IF v.result.action_required.type = "close_opposite" THEN v.result.action_required.positions_to_close ELSE << >>
           IN  IF ~TradingEnabled(frame.trading)
               THEN /\ frame' = Return(frame, Result(FALSE, "trading_disabled", ""))
                    /\ UNCHANGED << sent, dualSidePosition, recent_orders >>
               ELSE IF ~leverage_ok
               THEN /\ frame' = Return(frame, Result(FALSE, "leverage_failed", ""))
                    /\ sent' = sent \o Settings(answers, dualSidePosition, dualSidePosition)
                    /\ UNCHANGED << dualSidePosition, recent_orders >>
               ELSE /\ sent' = sent \o Settings(answers, dualSidePosition, dual_after)
                    /\ dualSidePosition' = dual_after
                    /\ recent_orders' = v.recent_orders
                    /\ frame' = IF ~v.result.allowed
                                THEN Return(frame, Result(FALSE, v.result.reason, ""))
                                ELSE [frame EXCEPT !.is_hedge_mode = _get_position_mode(dual_after, answered),
                                                   !.mode_answered = answered,
                                                   !.todo = todo, !.listed = todo,
                                                   !.pc = IF todo = << >> THEN "po_entry" ELSE "po_close"]
        /\ UNCHANGED << outer, wpositions, now, deliveries, others_W >>

\* The loop over positions_to_close calls place_order(symbol,
\* "close_<side>", quantity=size) for the next position.
CloseNext ==
    /\ frame.pc \in {"po_close", "ts_close"}
    /\ outer' = [frame EXCEPT !.todo = Tail(@)]
    /\ frame' = [NoFrame EXCEPT !.pc = "po_start", !.flow = "close", !.trading = frame.trading,
                                !.symbol = frame.symbol, !.direction = frame.todo[1].side, !.action = "close",
                                !.quantity = frame.todo[1].size]
    /\ UNCHANGED << sent, dualSidePosition, wpositions, recent_orders, now, deliveries, others_W >>

\* A loop that goes on to the entry whatever the close returned.
Mut_AfterClose(caller, close_result) ==
    IF caller.todo # << >> THEN caller
    ELSE [caller EXCEPT !.pc = IF caller.pc = "po_close" THEN "po_entry" ELSE "ts_entry"]

\* The loop over positions_to_close after one nested place_order returned:
\* `if not close_result or 'error' in close_result` ends the caller with
\* "Failed to close opposite position", otherwise the loop goes on and
\* after its last position the caller moves to its entry order.
AfterClose(caller, close_result) ==
    IF close_result.error # ""
    THEN Return(caller, Result(FALSE, "close_opposite_failed", ""))
    ELSE IF caller.todo # << >> THEN caller
    ELSE [caller EXCEPT !.pc = IF caller.pc = "po_close" THEN "po_entry" ELSE "ts_entry"]

\* The nested place_order returns into the loop.
ReturnToCaller ==
    /\ frame.pc = "return"
    /\ outer.pc # "none"
    /\ frame' = AfterClose(outer, frame.result)
    /\ outer' = NoFrame
    /\ UNCHANGED << sent, dualSidePosition, wpositions, recent_orders, now, deliveries, others_W >>

\* The exchange's rows after it has filled an order for qty: a hedge-mode
\* account keeps one row per positionSide, a one-way account one signed
\* BOTH row; a row that reaches zero is gone.
ExchangeFill(rows, dual, symbol, side, positionSide, qty) ==
    LET key == IF dual THEN positionSide ELSE "BOTH"
        mine(p) == p.symbol = symbol /\ p.positionSide = key
        held == SelectSeq(rows, mine)
        old == IF held = << >> THEN 0 ELSE held[1].positionAmt
        moved == IF side = "BUY" THEN old + qty ELSE old - qty
        new == IF key = "LONG" /\ moved < 0 THEN 0
               ELSE IF key = "SHORT" /\ moved > 0 THEN 0
               ELSE moved
        rest == SelectSeq(rows, LAMBDA p : ~mine(p))
    IN  IF new = 0 THEN rest ELSE Append(rest, Pos(symbol, key, new, MarketPrice))

\* The exchange accepts an order only when its positionSide key fits the
\* account's mode (present under hedge mode, absent under one-way mode) and
\* its quantity, when it has one, is within the LOT_SIZE filter; a price
\* that is NaN is refused.
Acceptable(payload, dual) ==
    /\ (payload.positionSide # "") = dual
    /\ ~payload.nan
    /\ payload.closePosition \/ (payload.quantity >= min_qty /\ payload.quantity <= max_qty)

\* The answers the exchange can give to an order.
Answers(payload, dual) == IF Acceptable(payload, dual) THEN BOOLEAN ELSE {FALSE}

\* The numbers of failed attempts a retried order can meet.
Failures(payload, dual) == IF Acceptable(payload, dual) THEN 0..max_retries ELSE {max_retries}

\* A retry loop that goes on to max_retries attempts after a success.
Mut_Attempts(payload, fails) ==
    [i \in 1..max_retries |-> [payload EXCEPT !.accepted = (i = fails + 1)]]

\* The calls of one retry loop of _place_tp_sl_with_retry whose first
\* `fails` attempts are rejected: at most max_retries of them, the last one
\* accepted when the loop did not run out.
Attempts(payload, fails) ==
    [i \in 1..(IF fails >= max_retries THEN max_retries ELSE fails + 1) |-> [payload EXCEPT !.accepted = (i = fails + 1)]]

\* 'LONG' if direction == 'long' else 'SHORT'.
PositionSideOf(direction) == IF direction = "long" THEN "LONG" ELSE "SHORT"

\* The TAKE_PROFIT_MARKET and STOP_MARKET payloads of a TP/SL pair, with
\* their stop prices rounded once more.
TpParams(symbol, direction, entry, tp_price, is_hedge_mode) ==
    [BasePayload EXCEPT !.type = "TAKE_PROFIT_MARKET", !.side = IF direction = "long" THEN "SELL" ELSE "BUY",
                        !.stopPrice = _round_to_price_step(symbol, 10 * tp_price), !.closePosition = TRUE,
                        !.positionSide = PositionSideKey(is_hedge_mode, PositionSideOf(direction)),
                        !.intent = direction, !.entry = entry]

SlParams(symbol, direction, entry, sl_price, is_hedge_mode) ==
    [BasePayload EXCEPT !.type = "STOP_MARKET", !.side = IF direction = "long" THEN "SELL" ELSE "BUY",
                        !.stopPrice = _round_to_price_step(symbol, 10 * sl_price), !.closePosition = TRUE,
                        !.positionSide = PositionSideKey(is_hedge_mode, PositionSideOf(direction)),
                        !.intent = direction, !.entry = entry]

\* The MARKET payload of place_order and of the trailing flow's entry.
MarketParams(direction, action, raw, quantity, is_hedge_mode) ==
    [BasePayload EXCEPT !.type = "MARKET", !.raw = raw,
                        !.side = IF action = "open"
                                 THEN (IF direction = "long" THEN "BUY" ELSE "SELL")
                                 ELSE (IF direction = "long" THEN "SELL" ELSE "BUY"),
                        !.quantity = quantity,
                        !.positionSide = PositionSideKey(is_hedge_mode, PositionSideOf(direction)),
                        !.intent = direction]

\* place_order from sizing to the answer to its market order: the price
\* (only for quantity=None), the quantity and its rounding, the payload,
\* futures_create_order.  A close is done once the order is in; an open
\* goes on to its TP/SL.
PO_Entry ==
    \E priced, lot_size_found, notify_raised \in BOOLEAN, raw \in RawQuantities :
        /\ frame.pc = "po_entry"
        /\ LET sized == IF frame.quantity = 0 THEN raw ELSE frame.quantity
               quantity == _round_quantity_to_precision(sized, lot_size_found)
               order_params == Stamp(MarketParams(frame.direction, frame.action, sized, quantity, frame.is_hedge_mode), dualSidePosition, frame.mode_answered)
           IN  IF frame.quantity = 0 /\ ~priced
               THEN /\ frame' = Return(frame, Result(FALSE, "no_price", ""))
                    /\ UNCHANGED << sent, wpositions >>
               ELSE \E accepted \in Answers(order_params, dualSidePosition) :
                        /\ sent' = Append(sent, [order_params EXCEPT !.accepted = accepted])
                        /\ wpositions' = IF accepted
                                         THEN ExchangeFill(wpositions, dualSidePosition, frame.symbol, order_params.side, order_params.positionSide, quantity)
                                         ELSE wpositions
                        /\ frame' = IF ~accepted THEN Caught(frame, "order_error")
                                    ELSE IF frame.action = "open"
                                    THEN [frame EXCEPT !.pc = "po_protect", !.executed_qty = quantity, !.entry_accepted = TRUE]
                                    ELSE Notify([frame EXCEPT !.executed_qty = quantity, !.entry_accepted = TRUE], Result(TRUE, "", ""), notify_raised)
        /\ UNCHANGED << outer, dualSidePosition, recent_orders, now, deliveries, others_W >>

\* place_order after its entry order is in, for an open: the entry price,
\* ATR, calculate_tp_sl_prices, validate_tp_sl_logic,
\* _place_tp_sl_with_retry, the notification, return order_result.  Every
\* failure in between is logged and the order's result still returned.
PO_Protect ==
    \E current_price \in EntryPrices, klines \in Candles, computed \in ATRs, notify_raised \in BOOLEAN :
        /\ frame.pc = "po_protect"
        /\ LET atr_value == get_atr(default_atr_period, klines, computed)
               asked == IF current_price <= 0 THEN frame
                        ELSE [frame EXCEPT !.klines = klines, !.atr = atr_value]
               p == calculate_tp_sl_prices(frame.symbol, current_price, atr_value, frame.direction)
               tp_params == Stamp(TpParams(frame.symbol, frame.direction, current_price, p.tp_price, frame.is_hedge_mode), dualSidePosition, frame.mode_answered)
               sl_params == Stamp(SlParams(frame.symbol, frame.direction, current_price, p.sl_price, frame.is_hedge_mode), dualSidePosition, frame.mode_answered)
           IN  /\ IF current_price <= 0 \/ atr_value <= 0
                     \/ ~validate_tp_sl_logic(frame.symbol, frame.direction, current_price, p.tp_price, p.sl_price)
                  THEN sent' = sent
                  ELSE \E tp_fails \in Failures(tp_params, dualSidePosition), sl_fails \in Failures(sl_params, dualSidePosition) :
                           sent' = sent \o Attempts(tp_params, tp_fails) \o Attempts(sl_params, sl_fails)
               /\ frame' = Notify(asked, Result(TRUE, "", ""), notify_raised)
        /\ UNCHANGED << outer, dualSidePosition, wpositions, recent_orders, now, deliveries, others_W >>

\* place_trailing_stop_strategy from its start to the validator's verdict:
\* the payload's fields, the trading switches, the open positions, and
\* validate_position_request.  float() of a callbackRate, an
\* activationPrice or a stopLoss that is not numeric raises ValueError,
\* which returns the "Invalid numeric values" error.  A callbackRate of 0
\* counts as missing.
TS_Validate ==
    \E seen, auto \in BOOLEAN :
        /\ frame.pc = "ts_start"
        /\ LET v == validate_position_request(recent_orders, now, _format_symbol(frame.symbol), frame.direction, frame.action, get_open_positions(wpositions, seen), auto)
               todo == IF v.result.action_required.type = "close_opposite" THEN v.result.action_required.positions_to_close ELSE << >>
               callback_rate == RateFloat(frame.callback_input)
               parsed == [frame EXCEPT !.callback_rate = callback_rate.value.num,
                                       !.working_type = Upper(frame.working_type)]
           IN  IF callback_rate.raised # "" \/ frame.level_text # {}
               THEN /\ frame' = Return(frame, Result(FALSE, "invalid_numeric", ""))
                    /\ UNCHANGED recent_orders
               ELSE IF parsed.callback_rate = 0
               THEN /\ frame' = Return(parsed, Result(FALSE, "missing_fields", ""))
                    /\ UNCHANGED recent_orders
               ELSE IF ~TradingEnabled(frame.trading)
               THEN /\ frame' = Return(parsed, Result(FALSE, "trading_disabled", ""))
                    /\ UNCHANGED recent_orders
               ELSE /\ recent_orders' = v.recent_orders
                    /\ frame' = IF ~v.result.allowed
                                THEN Return(parsed, Result(FALSE, v.result.reason, ""))
                                ELSE [parsed EXCEPT !.todo = todo, !.listed = todo, !.pc = IF todo = << >> THEN "ts_entry" ELSE "ts_close"]
        /\ UNCHANGED << outer, sent, dualSidePosition, wpositions, now, deliveries, others_W >>

\* The trailing flow's entry: get_coin_config, which raises on an override
\* that overflows, then leverage, margin type, position mode, the
\* price, the quantity and its rounding, the MARKET payload,
\* futures_create_order.
TS_Entry ==
    \/ /\ frame.pc = "ts_entry"
       /\ frame' = Caught(frame, "exception")
       /\ UNCHANGED << sent, dualSidePosition, wpositions >>
       /\ UNCHANGED << outer, recent_orders, now, deliveries, others_W >>
    \/ \E answers \in SettingAnswers(frame), granted, answered, priced, lot_size_found \in BOOLEAN, raw \in RawQuantities :
        /\ frame.pc = "ts_entry"
        /\ LET leverage_ok == set_leverage(answers.leverage)
               dual_after == _set_position_mode(dualSidePosition, wpositions, granted)
               is_hedge_mode == _get_position_mode(dual_after, answered)
               executed_qty == _round_quantity_to_precision(raw, lot_size_found)
               order_params == Stamp(MarketParams(frame.direction, "open", raw, executed_qty, is_hedge_mode), dual_after, answered)
           IN  IF ~leverage_ok
               THEN /\ frame' = Return(frame, Result(FALSE, "leverage_failed", ""))
                    /\ sent' = sent \o Settings(answers, dualSidePosition, dualSidePosition)
                    /\ UNCHANGED << dualSidePosition, wpositions >>
               ELSE IF ~priced
               THEN /\ frame' = Return(frame, Result(FALSE, "no_price", ""))
                    /\ sent' = sent \o Settings(answers, dualSidePosition, dual_after)
                    /\ dualSidePosition' = dual_after
                    /\ UNCHANGED wpositions
               ELSE \E accepted \in Answers(order_params, dual_after) :
                        /\ sent' = Append(sent \o Settings(answers, dualSidePosition, dual_after), [order_params EXCEPT !.accepted = accepted])
                        /\ dualSidePosition' = dual_after
                        /\ wpositions' = IF accepted
                                         THEN ExchangeFill(wpositions, dual_after, frame.symbol, order_params.side, order_params.positionSide, executed_qty)
                                         ELSE wpositions
                        /\ frame' = IF ~accepted THEN Return(frame, Result(FALSE, "order_error", ""))
                                    ELSE [frame EXCEPT !.pc = "ts_resolve", !.is_hedge_mode = is_hedge_mode, !.mode_answered = answered,
                                                       !.executed_qty = executed_qty, !.entry_accepted = TRUE]
        /\ UNCHANGED << outer, recent_orders, now, deliveries, others_W >>

\* The activation price the flow uses: the payload's when it has one, else
\* 2% from the entry on the profit side; a price on the wrong side of the
\* entry is replaced by that default.
ActivationPrice(direction, entry_price, activation_price_input) ==
    LET auto == IF direction = "long" THEN (entry_price * 102) \div 100 ELSE (entry_price * 98) \div 100
        given == IF activation_price_input # 0 THEN activation_price_input ELSE auto
    IN  IF direction = "long"
        THEN (IF given <= entry_price THEN auto ELSE given)
        ELSE (IF given >= entry_price THEN auto ELSE given)

\* The stop price the flow uses: the payload's when it has one, else 3%
\* from the entry on the loss side; a long's stop at or above the entry and
\* a short's stop at or below it are replaced by that default.
StopLossPrice(direction, entry_price, stop_given, stop_loss_input) ==
    LET auto == IF direction = "long" THEN (entry_price * 97) \div 100 ELSE (entry_price * 103) \div 100
        given == IF stop_given THEN stop_loss_input ELSE auto
    IN  IF direction = "long"
        THEN (IF given >= entry_price THEN auto ELSE given)
        ELSE (IF given <= entry_price THEN auto ELSE given)

\* After the entry: the entry price, the activation and stop prices, and the
\* position mode read again.  A level that arrived as NaN is truthy and not
\* None, so it is used, and every comparison of it with the entry price is
\* False, so it is not replaced: it stays NaN (the frame keeps 0 for it and
\* its name in level_nan).
TS_ResolvePrices ==
    \E answered \in BOOLEAN :
        /\ frame.pc = "ts_resolve"
        /\ frame' = [frame EXCEPT !.pc = "ts_trailing",
                                  !.activation_price = IF "activationPrice" \in frame.level_nan THEN 0
                                                       ELSE ActivationPrice(frame.direction, MarketPrice, frame.activation_price),
                                  !.stop_loss_price = IF "stopLoss" \in frame.level_nan THEN 0
                                                      ELSE StopLossPrice(frame.direction, MarketPrice, frame.stop_given, frame.stop_loss_price),
                                  !.stop_given = TRUE,
                                  !.is_hedge_mode = _get_position_mode(dualSidePosition, answered),
                                  !.mode_answered = answered]
        /\ UNCHANGED << outer, sent, dualSidePosition, wpositions, recent_orders, now, deliveries, others_W >>

\* The trailing stop's payload for the algo order endpoint.
TrailingParams(f) ==
    [BasePayload EXCEPT !.type = "TRAILING_STOP_MARKET", !.side = IF f.direction = "long" THEN "SELL" ELSE "BUY",
                        !.quantity = f.executed_qty, !.callbackRate = f.callback_rate,
                        !.workingType = f.working_type,
                        !.activationPrice = f.activation_price, !.nan = "activationPrice" \in f.level_nan,
                        !.positionSide = PositionSideKey(f.is_hedge_mode, PositionSideOf(f.direction)),
                        !.intent = f.direction, !.entry = MarketPrice]

\* One pass of the retry loop: _place_trailing_stop_algo_order is called;
\* accepted, the flow returns its success; rejected for the last time, the
\* flow goes to its fallback.
TS_TrailingAttempt ==
    \E accepted \in Answers(TrailingParams(frame), dualSidePosition) :
        /\ frame.pc = "ts_trailing"
        /\ frame.attempt < max_retries
        /\ sent' = Append(sent, [Stamp(TrailingParams(frame), dualSidePosition, frame.mode_answered) EXCEPT !.accepted = accepted])
        /\ frame' = IF accepted
                    THEN Return([frame EXCEPT !.attempt = @ + 1, !.tiers = @ \cup {"trailing"}], Result(TRUE, "", ""))
                    ELSE [frame EXCEPT !.attempt = @ + 1, !.tiers = @ \cup {"trailing"},
                                       !.pc = IF frame.attempt + 1 < max_retries THEN "ts_trailing" ELSE "ts_fallback"]
        /\ UNCHANGED << outer, dualSidePosition, wpositions, recent_orders, now, deliveries, others_W >>

\* The fallback STOP_MARKET payload.
FallbackParams(f) ==
    [BasePayload EXCEPT !.type = "STOP_MARKET", !.side = IF f.direction = "long" THEN "SELL" ELSE "BUY",
                        !.quantity = f.executed_qty, !.stopPrice = f.stop_loss_price, !.nan = "stopLoss" \in f.level_nan,
                        !.positionSide = PositionSideKey(f.is_hedge_mode, PositionSideOf(f.direction)),
                        !.intent = f.direction, !.entry = MarketPrice]

\* The fallback: with a stop price that is not positive (NaN <= 0 is False)
\* the flow returns an error at once; otherwise the STOP_MARKET order is sent, and accepted it
\* ends the flow with a success that carries a warning.
TS_Fallback ==
    /\ frame.pc = "ts_fallback"
    /\ IF "stopLoss" \notin frame.level_nan /\ frame.stop_loss_price <= 0
       THEN /\ frame' = Return(frame, Result(FALSE, "no_fallback_stop", ""))
            /\ sent' = sent
       ELSE \E accepted \in Answers(FallbackParams(frame), dualSidePosition) :
                /\ sent' = Append(sent, [Stamp(FallbackParams(frame), dualSidePosition, frame.mode_answered) EXCEPT !.accepted = accepted])
                /\ frame' = IF accepted
                            THEN Return([frame EXCEPT !.tiers = @ \cup {"fallback"}], Result(TRUE, "", "trailing_rejected"))
                            ELSE [frame EXCEPT !.tiers = @ \cup {"fallback"}, !.pc = "ts_last_resort"]
    /\ UNCHANGED << outer, dualSidePosition, wpositions, recent_orders, now, deliveries, others_W >>

\* The last resort: ATR, calculate_tp_sl_prices, validate_tp_sl_logic, then
\* the TP order and, the TP accepted, the SL order.  Both accepted end the
\* flow with a success that carries a warning; anything else ends it with
\* the error that no stop protection was placed.
TS_LastResort ==
    \E klines \in Candles, computed \in ATRs :
        /\ frame.pc = "ts_last_resort"
        /\ LET atr_value == get_atr(default_atr_period, klines, computed)
               asked == [frame EXCEPT !.klines = klines, !.atr = atr_value, !.tiers = @ \cup {"last_resort"}]
               p == calculate_tp_sl_prices(frame.symbol, MarketPrice, atr_value, frame.direction)
               tp_params == Stamp(TpParams(frame.symbol, frame.direction, MarketPrice, p.tp_price, frame.is_hedge_mode), dualSidePosition, frame.mode_answered)
               sl_params == Stamp(SlParams(frame.symbol, frame.direction, MarketPrice, p.sl_price, frame.is_hedge_mode), dualSidePosition, frame.mode_answered)
               unprotected == Return(asked, Result(FALSE, "both_failed", "unprotected"))
           IN  IF atr_value <= 0 \/ ~validate_tp_sl_logic(frame.symbol, frame.direction, MarketPrice, p.tp_price, p.sl_price)
               THEN /\ sent' = sent
                    /\ frame' = unprotected
               ELSE \E tp_ok \in Answers(tp_params, dualSidePosition), sl_ok \in Answers(sl_params, dualSidePosition) :
                        /\ sent' = IF tp_ok
                                   THEN sent \o << [tp_params EXCEPT !.accepted = TRUE], [sl_params EXCEPT !.accepted = sl_ok] >>
                                   ELSE Append(sent, tp_params)
                        /\ frame' = IF tp_ok /\ sl_ok
                                    THEN Return(asked, Result(TRUE, "", "tp_sl_protection"))
                                    ELSE unprotected
        /\ UNCHANGED << outer, dualSidePosition, wpositions, recent_orders, now, deliveries, others_W >>

NextOrders ==
    \/ StandardSignal
    \/ TrailingPayload
    \/ PO_Prepare
    \/ CloseNext
    \/ ReturnToCaller
    \/ PO_Entry
    \/ PO_Protect
    \/ TS_Validate
    \/ TS_Entry
    \/ TS_ResolvePrices
    \/ TS_TrailingAttempt
    \/ TS_Fallback
    \/ TS_LastResort

\* ------------------------------------------------------------------------
\* The position monitor (BinanceHandler.monitor_positions, started by
\* app.start_position_monitor) and the protective orders left at the
\* exchange
\* ------------------------------------------------------------------------
\* The {symbol, positionSide} keys of the monitor's account (hedge mode).
PositionKeys == {<< "BTCUSDT", "LONG" >>, << "BTCUSDT", "SHORT" >>}

ProtectiveTypes == {"TRAILING_STOP_MARKET", "TAKE_PROFIT_MARKET", "STOP_MARKET"}

\* The protective orders a finished flow leaves with its position: the
\* trailing stop, the fallback stop, the TP/SL pair, one member of the pair
\* or nothing.
Protections ==
    { {"TRAILING_STOP_MARKET"}, {"STOP_MARKET"},
      {"TAKE_PROFIT_MARKET", "STOP_MARKET"}, {"TAKE_PROFIT_MARKET"}, {} }

ProtectiveOrder(key, type) == [symbol |-> key[1], positionSide |-> key[2], type |-> type]
ProtectiveOrders == {ProtectiveOrder(key, type) : key \in PositionKeys, type \in ProtectiveTypes}
KeyOf(o) == << o.symbol, o.positionSide >>

InitMonitor ==
    /\ xpositions = {}
    /\ xorders = {}
    /\ last_position_states = {}
    /\ mpc = "read"

\* A flow opened a position and left its protective orders at the exchange.
PositionOpens ==
    \E key \in PositionKeys \ xpositions, protection \in Protections :
        /\ xpositions' = xpositions \cup {key}
        /\ xorders' = xorders \cup {ProtectiveOrder(key, type) : type \in protection}
        /\ UNCHANGED << last_position_states, mpc, others_M >>

\* A position goes away: one of its protective orders triggers and is
\* filled, or it is closed by a close order or at the exchange's site.  Its
\* other protective orders stay open.
PositionCloses ==
    \E key \in xpositions :
        \E filled \in {{o} : o \in {x \in xorders : KeyOf(x) = key}} \cup {{}} :
            /\ xpositions' = xpositions \ {key}
            /\ xorders' = xorders \ filled
            /\ UNCHANGED << last_position_states, mpc, others_M >>

\* monitor_positions, one pass of the loop body: read the open positions and
\* store each under f"{symbol}_{positionSide}".  No order is read and none
\* is cancelled.
MonitorRead ==
    /\ mpc = "read"
    /\ last_position_states' = last_position_states \cup xpositions
    /\ mpc' = "sleep"
    /\ UNCHANGED << xpositions, xorders, others_M >>

\* monitor_positions: time.sleep(5), then the next pass.
MonitorSleep ==
    /\ mpc = "sleep"
    /\ mpc' = "read"
    /\ UNCHANGED << xpositions, xorders, last_position_states, others_M >>

\* cleanup_orphaned_trailing_stops.py, run by hand from a shell with
\* --auto: cancels the trailing stops whose key has no open position.  The
\* handler never starts it.
cleanup_orphaned_trailing_stops ==
    LET orphaned_trailing == {o \in xorders : /\ o.type = "TRAILING_STOP_MARKET"
                                              /\ KeyOf(o) \notin xpositions}
    IN /\ orphaned_trailing # {}
       /\ xorders' = xorders \ orphaned_trailing
       /\ UNCHANGED << xpositions, last_position_states, mpc, others_M >>

NextMonitor ==
    \/ PositionOpens
    \/ PositionCloses
    \/ MonitorRead
    \/ MonitorSleep
    \/ cleanup_orphaned_trailing_stops

\* ------------------------------------------------------------------------
\* CoinConfigManager.get_coin_config (coin_config_manager.py)
\* ------------------------------------------------------------------------
\* float(x) on the values of a flat config, where a number is kept in
\* tenths (207 is 20.7).
PyFloat(x) ==
    CASE x.kind \in {"num", "inf", "nan"} -> Value(x)
      [] x.kind = "bool" -> Value(PyNum(IF x.flag THEN 10 ELSE 0))
      [] x.kind = "str" ->
            CASE x.text = "20.7" -> Value(PyNum(207))
              [] x.text = "-1.5" -> Value(PyNum(-15))
              [] x.text = "1e999" -> Value(PyInf)
              [] x.text = "nan" -> Value(PyNaN)
              [] OTHER -> Raised("ValueError")
      [] OTHER -> Raised("TypeError")

\* int(x) of a float: truncation toward zero; OverflowError for an
\* infinity, ValueError for a NaN.
PyInt(x) ==
    CASE x.kind = "num" ->
            Value(PyNum(IF x.num >= 0 THEN (x.num \div 10) * 10
                        ELSE -(((-x.num) \div 10) * 10)))
      [] x.kind = "inf" -> Raised("OverflowError")
      [] x.kind = "nan" -> Raised("ValueError")
      [] OTHER -> Raised("TypeError")

\* bool(x)
PyTruth(x) ==
    CASE x.kind = "num" -> x.num # 0
      [] x.kind \in {"inf", "nan"} -> TRUE
      [] x.kind = "str" -> x.text # ""
      [] x.kind = "bool" -> x.flag
      [] OTHER -> FALSE

ConfigKeys ==
    {"order_size_percentage", "leverage", "atr_period", "atr_tp_multiplier",
     "atr_sl_multiplier", "enable_trading"}

\* CoinConfigManager.defaults
defaults ==
    [order_size_percentage |-> PyNum(100), leverage |-> PyNum(100),
     atr_period |-> PyNum(140), atr_tp_multiplier |-> PyNum(25),
     atr_sl_multiplier |-> PyNum(30), enable_trading |-> PyBool(TRUE)]

\* CoinConfigManager.extract_coin_type on the symbols of the model.
extract_coin_type(symbol) ==
    CASE symbol \in {"BTCUSDT", "btcusdt"} -> "btc"
      [] symbol = "BTCUSDT.P" -> "btc.p"
      [] symbol = "ETHUSDC" -> "ethusdc"
      [] symbol = "BTCUSDTPERP" -> "btc"
      [] OTHER -> Lower(symbol)

\* TPSLManager._extract_coin_type on the symbols of the model: only the
\* USDT suffix is removed.
_extract_coin_type(symbol) ==
    CASE symbol \in {"BTCUSDT", "btcusdt"} -> "btc"
      [] symbol = "BTCUSDT.P" -> "btc.p"
      [] symbol = "ETHUSDC" -> "ethusdc"
      [] symbol = "BTCUSDTPERP" -> "btcperp"
      [] OTHER -> Lower(symbol)

\* f'{coin_type}_{key}'
ConfigKey(coin_type, key) == << coin_type, key >>

\* The conversion get_coin_config applies to the override of a key.
Coerce(key, coin_value) ==
    IF key \in {"order_size_percentage", "atr_tp_multiplier", "atr_sl_multiplier"}
    THEN PyFloat(coin_value)
    ELSE IF key \in {"leverage", "atr_period"}
    THEN IF PyFloat(coin_value).raised # "" THEN PyFloat(coin_value)
         ELSE PyInt(PyFloat(coin_value).value)
    ELSE Value(PyBool(PyTruth(coin_value)))

\* CoinConfigManager.get_coin_config: the exception that leaves it, "" when
\* it returns, and the returned fields.  The except clause catches
\* TypeError and ValueError.
get_coin_config(config, symbol) ==
    LET coin_type == extract_coin_type(symbol)
        coin_value(key) ==
            IF ConfigKey(coin_type, key) \in DOMAIN config
            THEN config[ConfigKey(coin_type, key)] ELSE PyNone
        field(key) ==
            IF coin_value(key) = PyNone THEN Value(defaults[key])
            ELSE IF Coerce(key, coin_value(key)).raised \in {"TypeError", "ValueError"}
            THEN Value(defaults[key])
            ELSE Coerce(key, coin_value(key))
        escaped == {field(key).raised : key \in ConfigKeys} \ {""}
    IN [raised |-> IF escaped = {} THEN "" ELSE CHOOSE e \in escaped : TRUE,
        config |-> [key \in ConfigKeys |-> field(key).value]]

\* The values an override can hold, the coin types of the config's keys
\* and the symbols asked for.
Overrides ==
    { PyNone, PyNum(207), PyNum(-15), PyNum(0), PyStr("20.7"), PyStr("abc"),
      PyStr("1e999"), PyStr("nan"), PyInf, PyList, PyBool(FALSE) }
CoinTypes == {"btc", "ethusdc"}
ConfigSymbols == {"BTCUSDT", "btcusdt", "BTCUSDT.P", "ETHUSDC", "BTCUSDTPERP"}

NoConfigCall == [made |-> FALSE, symbol |-> "", config |-> << >>]
NoConfig == [raised |-> "", config |-> [key \in ConfigKeys |-> PyNone]]

NoMultipliers == [made |-> FALSE, raised |-> "", atr_tp_multiplier |-> PyNone, atr_sl_multiplier |-> PyNone]

InitConfig ==
    /\ ccall = NoConfigCall
    /\ cresult = NoConfig
    /\ multipliers = NoMultipliers

\* A manager is built on a flat config that holds two overrides and is
\* asked for the configuration of a symbol.
GetCoinConfig ==
    /\ ~ccall.made
    /\ \E symbol \in ConfigSymbols, coin \in CoinTypes, k1, k2 \in ConfigKeys, v1, v2 \in Overrides :
        LET config == [ck \in {ConfigKey("btc", k1), ConfigKey(coin, k2)} |->
                          IF ck = ConfigKey("btc", k1) THEN v1 ELSE v2]
        IN /\ ccall' = [made |-> TRUE, symbol |-> symbol, config |-> config]
           /\ cresult' = get_coin_config(config, symbol)
    /\ UNCHANGED << multipliers, others_C >>

\* calculate_tp_sl_prices, one multiplier: config.get(f'{coin_type}_{key}',
\* default), then `float(x) if x else default`.
tp_sl_multiplier(config, coin_symbol, key) ==
    LET coin_type == _extract_coin_type(coin_symbol)
        got == IF ConfigKey(coin_type, key) \in DOMAIN config
               THEN config[ConfigKey(coin_type, key)] ELSE defaults[key]
    IN  IF PyTruth(got) THEN PyFloat(got) ELSE Value(defaults[key])

\* The TPSLManager built on the same config resolves its two multipliers
\* for the same symbol; an exception of the first float() leaves
\* calculate_tp_sl_prices before the second.
ResolveMultipliers ==
    /\ ccall.made
    /\ ~multipliers.made
    /\ LET tp == tp_sl_multiplier(ccall.config, ccall.symbol, "atr_tp_multiplier")
           sl == tp_sl_multiplier(ccall.config, ccall.symbol, "atr_sl_multiplier")
       IN  multipliers' = [made |-> TRUE,
                           raised |-> IF tp.raised # "" THEN tp.raised ELSE sl.raised,
                           atr_tp_multiplier |-> IF tp.raised # "" \/ sl.raised # "" THEN PyNone ELSE tp.value,
                           atr_sl_multiplier |-> IF tp.raised # "" \/ sl.raised # "" THEN PyNone ELSE sl.value]
    /\ UNCHANGED << ccall, cresult, others_C >>

NextConfig == GetCoinConfig \/ ResolveMultipliers

\* ------------------------------------------------------------------------
\* TP/SL prices (tp_sl_manager.py calculate_tp_sl_prices), called with an
\* empty config, so with the default multipliers
\* ------------------------------------------------------------------------

\* The arguments of the calls: prices and ATR values in units of 0.01 (0.05,
\* 10.00, 10.01, 500.00, 2000.00; 0.01, 0.08, 4.00, 20.00), the position
\* side as place_order passes it and in capitals.  The binary floats of the
\* code round each of these to the price the decimal arithmetic gives.
TPSLSymbols == {"BTCUSDT", "ETHUSDT"}
TPSLPrices == {5, 1000, 1001, 50000, 200000}
TPSLATRs == {1, 8, 400, 2000}
TPSLSides == {"long", "short", "LONG"}

NoTPSLCall == [made |-> FALSE, coin_symbol |-> "", current_price |-> 0, atr_value |-> 0, position_side |-> ""]

InitTPSL ==
    /\ tcall = NoTPSLCall
    /\ tresult = [tp_price |-> 0, sl_price |-> 0]

\* One call of calculate_tp_sl_prices.
CalculateTPSL ==
    /\ ~tcall.made
    /\ \E coin_symbol \in TPSLSymbols, current_price \in TPSLPrices, atr_value \in TPSLATRs, position_side \in TPSLSides :
        /\ tcall' = [made |-> TRUE, coin_symbol |-> coin_symbol, current_price |-> current_price,
                     atr_value |-> atr_value, position_side |-> position_side]
        /\ tresult' = calculate_tp_sl_prices(coin_symbol, current_price, atr_value, position_side)
        /\ UNCHANGED others_T

NextTPSL == CalculateTPSL

\* ------------------------------------------------------------------------
\* Specifications
\* ------------------------------------------------------------------------
Init ==
    /\ InitValidator /\ InitLocks /\ InitWebhook /\ InitOrders /\ InitMonitor /\ InitConfig
    /\ InitTPSL

SpecTPSL == Init /\ [][NextTPSL]_vars

SpecConfig == Init /\ [][NextConfig]_vars

\* The monitor is a daemon thread in a `while True` loop: its two steps are
\* taken again and again for as long as the process runs.
SpecMonitor ==
    Init /\ [][NextMonitor]_vars /\ WF_vars(MonitorRead) /\ WF_vars(MonitorSleep)

SpecValidator == Init /\ [][NextValidator]_vars

SpecLocks == Init /\ [][NextLocks]_vars

\* Every exchange call returns, so a thread inside a placement sequence goes
\* on until the sequence returns; get_symbol_lock only waits for
\* webhook_locks_lock, which is held for a dictionary lookup; a thread
\* blocked on a symbol's Lock is woken when the Lock is released and is not
\* overtaken for ever.
SpecLocksFair ==
    /\ SpecLocks
    /\ \A t \in Threads : /\ SF_vars(EnterGetSymbolLock(t))
                          /\ WF_vars(CheckSymbolLock(t))
                          /\ WF_vars(GetSymbolLock(t))
                          /\ SF_vars(AcquireSymbolLock(t))
                          /\ WF_vars(FinishPlacement(t))

SpecWebhook == Init /\ [][NextWebhook]_vars

SpecOrders == Init /\ [][NextOrders]_vars

\* ------------------------------------------------------------------------
\* Claims about the position validator (checked under SpecValidator)
\* ------------------------------------------------------------------------

\* BinanceHandler._determine_position_side: the direction a position row
\* stands for, read from the sign of the amount in one-way mode.
_determine_position_side(position_amt, position_side) ==
    IF position_side \in {"LONG", "SHORT"}
    THEN position_side
    ELSE IF position_amt > 0 THEN "LONG" ELSE "SHORT"

\* The open rows of the call's symbol, and those of them in / against the
\* requested direction.
OpenRows(call) ==
    LET open(p) == p.symbol = call.symbol /\ p.positionAmt # 0
    IN SelectSeq(call.positions, open)
SameRows(call) ==
    LET same(p) == _determine_position_side(p.positionAmt, p.positionSide) = Upper(call.direction)
    IN SelectSeq(OpenRows(call), same)
OppositeRows(call) ==
    LET opp(p) == _determine_position_side(p.positionAmt, p.positionSide) # Upper(call.direction)
    IN SelectSeq(OpenRows(call), opp)
SymbolAndSize(rows) ==
    [i \in 1..Len(rows) |-> [symbol |-> rows[i].symbol, size |-> Abs(rows[i].positionAmt)]]
ClosesListed(res) ==
    [i \in 1..Len(res.action_required.positions_to_close) |->
        [symbol |-> res.action_required.positions_to_close[i].symbol,
         size |-> res.action_required.positions_to_close[i].size]]

\* The call's key was approved less than 5 s before the call.
InCooldown(call) == call.prior >= 0 /\ call.time - call.prior < 5

\* C2: on one validator, a call whose key was approved less than 5 s earlier
\* returns allowed=false as a duplicate, whatever the positions are.
C2_DuplicateRejectedInCooldown ==
    (vcall.made /\ InCooldown(vcall))
        => (~vresult.allowed /\ vresult.reason = "duplicate")

\* C2 witness: a repeat 4 s after the approval, with no position open (so
\* only the ledger can reject it), is rejected.
C2_Witness ==
    /\ vcall.made /\ InCooldown(vcall) /\ vcall.time = vcall.prior + 4
    /\ vcall.action = "open" /\ vcall.positions = << >>
    /\ ~vresult.allowed

\* Some conversion of the call's position list fails: a size that is not
\* numeric in any row, or another non-numeric field in an open row of the
\* call's symbol.
NonNumericRow(call) ==
    \E i \in DOMAIN call.positions :
        LET row == call.positions[i] IN
        /\ "text" \in DOMAIN row
        /\ \/ "positionAmt" \in row.text
           \/ row.symbol = call.symbol /\ row.positionAmt # 0 /\ row.text # {}

\* A call with well-formed rows that is not answered from the ledger.
Decided(call) == call.made /\ ~InCooldown(call) /\ ~NonNumericRow(call)

\* C11: an open request on a symbol that already has an open position in
\* the requested direction is rejected, whether the row's side is
\* LONG/SHORT or BOTH with the direction in the sign of the size.
C11_SameDirectionRejected ==
    (vcall.made /\ vcall.action = "open" /\ SameRows(vcall) # << >>)
        => ~vresult.allowed

\* C12: a close request that is not a duplicate is approved exactly when
\* the symbol has an open position in the requested direction, and an
\* approval lists exactly those positions to close.
C12_CloseIffPositionInDirection ==
    (Decided(vcall) /\ vcall.action = "close")
        => /\ vresult.allowed <=> SameRows(vcall) # << >>
           /\ vresult.allowed
                 => /\ vresult.action_required.type = "close_positions"
                    /\ ClosesListed(vresult) = SymbolAndSize(SameRows(vcall))

\* C13: a call in which a conversion of a position record raises returns
\* allowed=false, with the exception as its reason unless the ledger had
\* already rejected it as a duplicate; it never returns an approval.
C13_FailClosed ==
    (vcall.made /\ NonNumericRow(vcall))
        => /\ ~vresult.allowed
           /\ ~InCooldown(vcall) => vresult.reason = "validation_error"

\* C13 witness: a close of a LONG position that is there is refused because
\* the entry price of the symbol's SHORT row is not numeric.
C13_Witness ==
    /\ vcall.made /\ NonNumericRow(vcall) /\ ~InCooldown(vcall)
    /\ vcall.action = "close" /\ vcall.direction = "long"
    /\ SameRows(vcall) # << >>
    /\ \A i \in DOMAIN vcall.positions :
          ~NotNumeric(vcall.positions[i], "positionAmt")
    /\ vresult.reason = "validation_error"

\* The time of the validator's last approval, -1 before the first.
LastApproval ==
    IF DOMAIN approved_at = {} THEN -1
    ELSE CHOOSE t \in {approved_at[k] : k \in DOMAIN approved_at} :
             \A k \in DOMAIN approved_at : approved_at[k] <= t

\* The call repeats a key recorded more than 60 s before it.
AfterMaxAge(call) ==
    call.made /\ call.prior >= 0 /\ call.time - call.prior > ledger_max_age

\* The verdict the call's positions give on a validator with an empty
\* ledger.
FreshVerdict(call) ==
    validate_position_request(<< >>, call.time, call.symbol, call.direction,
                              call.action, call.positions, call.auto).result

\* C18 as stated: no ledger entry is older than 60 s, and a request that
\* repeats a key recorded more than 60 s earlier is decided by the
\* positions alone.
C18_NoEntryOlderThanMaxAge ==
    /\ \A k \in DOMAIN recent_orders : now - recent_orders[k] <= ledger_max_age
    /\ AfterMaxAge(vcall) => vresult = FreshVerdict(vcall)

\* C18 amended: no ledger entry was older than 60 s at the validator's
\* last approval, the only place where entries are removed, and a request
\* that repeats a key recorded more than 60 s earlier is decided by the
\* positions alone.
C18_NoEntryOlderAtLastApproval ==
    /\ \A k \in DOMAIN recent_orders : LastApproval - recent_orders[k] <= ledger_max_age
    /\ AfterMaxAge(vcall) => vresult = FreshVerdict(vcall)

\* C18 witness: a key recorded at 0 is gone from the ledger after the
\* approval, at 61, of a request for another key.
C18_Witness ==
    /\ vcall.made /\ vresult.allowed /\ vcall.time = 61
    /\ \E k \in DOMAIN approved_at : approved_at[k] = 0 /\ k \notin DOMAIN recent_orders

\* The case C10 is about: an open request, no position in its direction,
\* at least one against it, every position record well-formed.
SwitchCase(call) ==
    /\ call.made /\ call.action = "open" /\ ~NonNumericRow(call)
    /\ SameRows(call) = << >> /\ OppositeRows(call) # << >>
SwitchVerdict(call, res) ==
    IF call.auto
    THEN /\ res.allowed
         /\ res.action_required.type = "close_opposite"
         /\ ClosesListed(res) = SymbolAndSize(OppositeRows(call))
    ELSE ~res.allowed

\* C10 as stated: in the switch case the validator approves with
\* close_opposite listing exactly the opposite positions at their absolute
\* size when auto-switch is on, and rejects when it is off.
C10_SwitchAlways == SwitchCase(vcall) => SwitchVerdict(vcall, vresult)

\* C10 amended: the same, for a request that is not a duplicate of one
\* approved in the last 5 s.
C10_SwitchUnlessDuplicate ==
    (SwitchCase(vcall) /\ ~InCooldown(vcall)) => SwitchVerdict(vcall, vresult)

\* C10 witness: a LONG row, a short open request, auto-switch on: approved
\* with the LONG row to close.
C10_Witness ==
    /\ SwitchCase(vcall) /\ ~InCooldown(vcall) /\ vcall.auto
    /\ vcall.direction = "short"
    /\ vresult.action_required.type = "close_opposite"
    /\ ClosesListed(vresult) = << [symbol |-> "BTCUSDT", size |-> 3] >>

\* C27: a call of validate_position_request that returns allowed = false,
\* for a duplicate or for any other reason, leaves recent_orders as it was.
C27_RejectionLeavesLedger ==
    [][(ncalls' = ncalls + 1 /\ ~vresult'.allowed) => recent_orders' = recent_orders]_vars

\* C27 witness: a repeat arrived inside the cooldown, after the clock had
\* moved, was rejected as a duplicate, and its key still carries the time of
\* its approval.
C27_Witness ==
    /\ vcall.made /\ ~vresult.allowed /\ vresult.reason = "duplicate"
    /\ vcall.time > vcall.prior /\ vcall.prior >= 0
    /\ OrderKey(vcall.symbol, vcall.direction, vcall.action) \in DOMAIN recent_orders
    /\ recent_orders[OrderKey(vcall.symbol, vcall.direction, vcall.action)] = vcall.prior

\* ------------------------------------------------------------------------
\* Claims about the per-symbol locks (checked under SpecLocks)
\* ------------------------------------------------------------------------

\* The threads inside an order-placement sequence for an exchange symbol.
InFlight(symbol) ==
    {t \in Threads : /\ tpc[t] \in {"validating", "recording", "protecting"}
                     /\ _format_symbol(treq[t].symbol) = symbol}

\* C1: at most one order-placement sequence is in flight per exchange
\* symbol, whichever of the standard branch, the trailing-stop branch and
\* the dashboard's close_position the requests come from.
C1_OneInFlightPerSymbol ==
    \A symbol \in Symbols : Cardinality(InFlight(symbol)) <= 1

\* C25: while a thread stores into recent_orders or iterates over it, no
\* other thread reads or modifies it.
C25_LedgerSerialised ==
    \A t1, t2 \in Threads :
        (tpc[t1] = "recording" /\ tpc[t2] \in {"validating", "recording"}) => t1 = t2

\* The positions of a thread inside a placement sequence.
Placing == {"validating", "recording", "protecting"}

C33_OneLockPerSymbol ==
    /\ \A k \in DOMAIN locks_created : locks_created[k] = 1
    /\ DOMAIN webhook_locks = DOMAIN locks_created

\* C33 witness: two first requests for the same string met in
\* get_symbol_lock, one inside the with-block and one waiting for it, and
\* later both hold a reference to the one Lock created.
C33_RaceWitness ==
    \E t, u \in Threads :
        /\ t # u /\ treq[t].symbol = treq[u].symbol
        /\ tpc[t] = "create_lock" /\ treq[t].missing /\ tpc[u] = "get_lock"
        /\ treq[t].symbol \notin DOMAIN webhook_locks

\* ------------------------------------------------------------------------
\* Claims about repeated deliveries (checked under SpecWebhook)
\* ------------------------------------------------------------------------

\* Delivery j repeats delivery i, which the validator approved, inside the
\* cooldown.
RepeatsApproved(i, j) ==
    /\ i < j
    /\ deliveries[i].allowed
    /\ deliveries[j].direction = deliveries[i].direction
    /\ deliveries[j].action = deliveries[i].action
    /\ deliveries[j].time - deliveries[i].time < order_cooldown

\* C3: a standard signal delivered again within 5 s of a delivery that was
\* approved is rejected as a duplicate and sends no order.
C3_RepeatRejectedAsDuplicate ==
    \A i, j \in DOMAIN deliveries :
        RepeatsApproved(i, j) => (deliveries[j].reason = "duplicate" /\ deliveries[j].orders = 0)

\* ------------------------------------------------------------------------
\* Claims about order placement (checked under SpecOrders)
\* ------------------------------------------------------------------------

\* The activation the request started, and whether it has returned.
Top == IF outer.pc # "none" THEN outer ELSE frame
Finished == frame.pc = "return" /\ outer.pc = "none"

\* What a call sent to the exchange is: a setting, a market order, a member
\* of a TP/SL pair (closePosition), a trailing stop, or a fallback stop.
Kind(p) ==
    IF p.type \in SettingTypes THEN "setting"
    ELSE IF p.type = "MARKET" THEN "market"
    ELSE IF p.type = "TAKE_PROFIT_MARKET" THEN "pair_tp"
    ELSE IF p.type = "TRAILING_STOP_MARKET" THEN "trailing"
    ELSE IF p.closePosition THEN "pair_sl" ELSE "fallback"

OrderKinds == {"market", "pair_tp", "pair_sl", "trailing", "fallback"}
OrdersSent == {i \in DOMAIN sent : Kind(sent[i]) \in OrderKinds}
Sent(kind) == {i \in DOMAIN sent : Kind(sent[i]) = kind}
Accepted(kind) == {i \in DOMAIN sent : Kind(sent[i]) = kind /\ sent[i].accepted}

\* C4: every take-profit and stop-loss of a TP/SL pair that is sent lies on
\* its side of the entry price the pair was derived from: tp > entry > sl
\* for a long, tp < entry < sl for a short.
C4_PairsOnTheirSides ==
    \A i \in DOMAIN sent :
        /\ Kind(sent[i]) = "pair_tp" => IF sent[i].intent = "long" THEN sent[i].stopPrice > sent[i].entry ELSE sent[i].stopPrice < sent[i].entry
        /\ Kind(sent[i]) = "pair_sl" => IF sent[i].intent = "long" THEN sent[i].stopPrice < sent[i].entry ELSE sent[i].stopPrice > sent[i].entry

C4_Witness ==
    /\ Finished
    /\ frame.flow = "trailing"
    /\ frame.direction = "short"
    /\ "last_resort" \in frame.tiers
    /\ Accepted("pair_tp") # {}
    /\ Accepted("pair_sl") # {}

\* Some protective order is in place: a trailing stop, a fallback stop, or
\* both members of a TP/SL pair.
Protected ==
    \/ Accepted("trailing") # {}
    \/ Accepted("fallback") # {}
    \/ (Accepted("pair_tp") # {} /\ Accepted("pair_sl") # {})

AllTiers == {"trailing", "fallback", "last_resort"}

\* C5: a trailing flow whose entry was accepted tries the trailing stop at
\* most 3 times, tries the fallback stop when no trailing stop was accepted,
\* tries the last resort when the fallback stop was rejected, and ends
\* without success only after all three tiers were tried.
C5_TiersInOrder ==
    (Finished /\ frame.flow = "trailing" /\ frame.entry_accepted) =>
        /\ Cardinality(Sent("trailing")) <= max_retries
        /\ (Accepted("trailing") = {} => Sent("fallback") # {})
        /\ ((Sent("fallback") # {} /\ Accepted("fallback") = {}) => "last_resort" \in frame.tiers)
        /\ (~frame.result.success => frame.tiers = AllTiers)

\* C6 as stated: a flow whose entry order was accepted returns a success,
\* never an error.
C6_SuccessAfterEntry ==
    (Finished /\ frame.entry_accepted) => (frame.result.success /\ frame.result.error = "")

\* C6: a standard flow whose entry order was accepted returns a success; a
\* trailing flow whose entry order was accepted returns a success when a
\* protective order is in place and an error when none is.
C6_SuccessUnlessTrailingUnprotected ==
    (Finished /\ frame.entry_accepted) =>
        /\ frame.result.success = (frame.result.error = "")
        /\ frame.result.success = (IF frame.flow = "trailing" THEN Protected ELSE TRUE)

C6_Witness ==
    /\ Finished
    /\ frame.flow = "trailing"
    /\ frame.entry_accepted
    /\ frame.tiers = AllTiers
    /\ ~Protected
    /\ Accepted("pair_tp") # {}
    /\ ~frame.result.success
    /\ frame.result.warning = "unprotected"

\* C7: a trailing-stop request whose callbackRate is below 0.1 or above 5.0
\* sends no order and ends with an error.
C7_OutOfBandRejected ==
    (Top.flow = "trailing" /\ (Top.callback_rate < 10 \/ Top.callback_rate > 500)) =>
        /\ OrdersSent = {}
        /\ Finished => (~frame.result.success /\ frame.result.error # "")

\* The raw quantity rounds to less than the minimum tradable quantity.
RoundsBelowMinimum(raw) == RoundDiv(raw, step_size) * step_size < min_qty

\* C8: no market order is sent for a quantity whose rounding falls below
\* the minimum tradable quantity.
C8_NoOrderBelowMinimum ==
    \A i \in DOMAIN sent : sent[i].type = "MARKET" => ~RoundsBelowMinimum(sent[i].raw)

\* The positionSide key, when present, names the direction served.
KeyNamesIntent(p) ==
    /\ (p.positionSide # "" /\ p.intent = "long") => p.positionSide = "LONG"
    /\ (p.positionSide # "" /\ p.intent = "short") => p.positionSide = "SHORT"

\* C9 as stated: an order carries positionSide exactly when the account is
\* in hedge mode, LONG for a long and SHORT for a short.
C9_KeyIffHedge ==
    \A i \in OrdersSent : ((sent[i].positionSide # "") = sent[i].dual) /\ KeyNamesIntent(sent[i])

\* C9: an order carries positionSide exactly when the account is in hedge
\* mode and the flow's position-mode query was answered, LONG for a long
\* and SHORT for a short.
C9_KeyIffHedgeDetected ==
    \A i \in OrdersSent : ((sent[i].positionSide # "") = (sent[i].dual /\ sent[i].answered)) /\ KeyNamesIntent(sent[i])

C9_Witness ==
    /\ Finished
    /\ \E i \in Accepted("fallback") : sent[i].positionSide = "SHORT" /\ sent[i].dual
    /\ \E i \in OrdersSent : sent[i].type = "MARKET" /\ sent[i].positionSide = "" /\ ~sent[i].dual

\* The attempts of one leg of the TP/SL pair of a standard flow: at most
\* three, none after an accepted one, and three when none was accepted.
LegRetried(kind) ==
    LET leg == Sent(kind) IN
    /\ Cardinality(leg) <= 3
    /\ \A i \in leg : sent[i].accepted => \A j \in leg : j <= i
    /\ (leg # {} /\ Accepted(kind) = {}) => Cardinality(leg) = 3

\* C15: in a standard flow the TP order is attempted at most 3 times and
\* the SL order at most 3 times, a leg is not retried after its first
\* success, the SL leg is attempted whenever the TP leg was (whatever the
\* TP leg's outcome), and the TP leg is attempted first, so never skipped
\* on account of the SL leg.
C15_IndependentRetryLoops ==
    Top.flow = "standard"
        => /\ LegRetried("pair_tp") /\ LegRetried("pair_sl")
           /\ Sent("pair_tp") # {} <=> Sent("pair_sl") # {}
           /\ \A i \in Sent("pair_tp"), j \in Sent("pair_sl") : i < j

\* C15 witness: the TP leg fails three times and the SL leg is still
\* attempted, succeeding at its second attempt.
C15_Witness ==
    /\ Finished /\ frame.flow = "standard"
    /\ Cardinality(Sent("pair_tp")) = 3 /\ Accepted("pair_tp") = {}
    /\ Cardinality(Sent("pair_sl")) = 2 /\ Accepted("pair_sl") # {}

\* C16: a flow in which get_atr returned 0.0, as it does whenever fewer
\* than period + 10 candles are available, sends no TP and no SL of a
\* TP/SL pair: not from the standard flow, not from the last-resort tier of
\* the trailing flow.
C16_NoPairWithoutATR ==
    /\ (Top.klines >= 0 /\ Top.klines < default_atr_period + 10) => Top.atr = 0
    /\ Top.atr = 0 => (Sent("pair_tp") = {} /\ Sent("pair_sl") = {})

\* C16 witness: a standard flow whose entry was accepted gets 23 candles
\* for period 14 and returns without a TP/SL pair.
C16_Witness ==
    /\ Finished /\ frame.flow = "standard" /\ frame.action = "open"
    /\ Accepted("market") # {}
    /\ frame.klines = default_atr_period + 9 /\ frame.atr = 0
    /\ Sent("pair_tp") = {} /\ Sent("pair_sl") = {}

\* ------------------------------------------------------------------------
\* Claims about the position monitor (checked under SpecMonitor)
\* ------------------------------------------------------------------------

\* A protective order is orphaned when its key has no open position.
Orphaned(o) == o \in xorders /\ KeyOf(o) \notin xpositions

\* C14: every protective order (trailing stop, TP or SL) whose
\* {symbol, positionSide} has no open position is eventually cancelled by
\* the background loop of the running process.
C14_OrphansEventuallyCancelled ==
    \A o \in ProtectiveOrders : Orphaned(o) ~> (o \notin xorders)

\* ------------------------------------------------------------------------
\* Claims about the coin configuration (checked under SpecConfig)
\* ------------------------------------------------------------------------

\* The override the call's config holds for a key of the call's symbol.
OverrideOf(call, key) ==
    IF ConfigKey(extract_coin_type(call.symbol), key) \in DOMAIN call.config
    THEN call.config[ConfigKey(extract_coin_type(call.symbol), key)] ELSE PyNone

\* The finite number an override stands for, if it stands for one.
IsFinite(v) == PyFloat(v).raised = "" /\ PyFloat(v).value.kind = "num"

\* The field the claim expects: the override coerced to the key's type, or
\* the default when there is no override or it has no finite value.
ExpectedField(call, key) ==
    LET v == OverrideOf(call, key) IN
    IF v = PyNone THEN defaults[key]
    ELSE IF key = "enable_trading" THEN PyBool(PyTruth(v))
    ELSE IF ~IsFinite(v) THEN defaults[key]
    ELSE IF key \in {"leverage", "atr_period"} THEN PyInt(PyFloat(v).value).value
    ELSE PyFloat(v).value

\* C17: get_coin_config never raises and returns every field, each the
\* symbol's override coerced to its type or, when the override is absent
\* or cannot be coerced (non-finite numbers included), the default; no
\* field is None.
C17_TotalWithDefaults ==
    ccall.made
        => /\ cresult.raised = ""
           /\ \A key \in ConfigKeys :
                 /\ cresult.config[key] # PyNone
                 /\ cresult.config[key] = ExpectedField(ccall, key)

\* The rate a callbackRate stands for, in units of 0.01 %.
RateMeant(x) ==
    IF x.kind = "num" THEN x.num
    ELSE IF x.text \in {"1.5", "1.5%"} THEN 150 ELSE 0

\* C19: a callbackRate given as a number, as a numeric string or as a
\* percent-suffixed string is parsed to the same value, and the request
\* is processed, not refused for its callbackRate's form.
C19_AllFormsParse ==
    (Top.flow = "trailing" /\ Top.pc # "ts_start" /\ Top.level_text = {})
        => /\ Top.result.error # "invalid_numeric"
           /\ Top.callback_rate = RateMeant(Top.callback_input)

\* C20: a trailing-stop order sent for a request whose workingType is
\* absent or is neither MARK_PRICE nor CONTRACT_PRICE carries workingType
\* MARK_PRICE.
C20_WorkingTypeDefaults ==
    Top.working_type_input \notin {"MARK_PRICE", "CONTRACT_PRICE"}
        => \A i \in Sent("trailing") : sent[i].workingType = "MARK_PRICE"

\* C21: a trailing-stop request whose activationPrice or stopLoss is
\* present but not numeric is accepted: it is not refused for the level,
\* the level is calculated from the entry price and the flow goes on to
\* its entry order.
C21_InvalidLevelAutoCalculated ==
    (Top.flow = "trailing" /\ Top.level_text # {} /\ Top.pc # "ts_start")
        => Top.result.error # "invalid_numeric"

\* The reasons a validation rejects a request with.
ValidationRejections ==
    {"duplicate", "same_direction", "auto_switch_disabled", "no_position_to_close"}

\* C22: a request rejected by validation has issued no exchange write: no
\* order and no change of leverage, margin type or position mode.
C22_NoWriteOnRejection ==
    (Finished /\ frame.result.error \in ValidationRejections) => sent = << >>

\* C23: an activation of place_order whose order was accepted attempts one
\* notification, whatever became of the TP/SL orders, and returns the
\* order's result whether or not the notification failed.
C23_NotifiedAndResultKept ==
    (frame.pc = "return" /\ frame.flow \in {"standard", "close"} /\ frame.entry_accepted)
        => (frame.notified = 1 /\ frame.result = Result(TRUE, "", ""))

\* C23 witness: the entry is in, the TP leg was accepted and the SL leg
\* was not, the notification raised, and the order's result is returned.
C23_Witness ==
    /\ Finished /\ frame.flow = "standard" /\ frame.entry_accepted
    /\ Accepted("pair_tp") # {} /\ Sent("pair_sl") # {} /\ Accepted("pair_sl") = {}
    /\ frame.notify_raised /\ frame.notified = 1
    /\ frame.result.success

Snapped(symbol, price10) ==
    LET step == IF symbol = "BTCUSDT" THEN 10 ELSE 1
    IN  RoundDiv(price10, 10 * step) * step

\* The price the claim's formula gives, in tenths of 0.01, with the
\* multipliers 2.5 and 3.0.
FormulaTP(call) ==
    IF call.position_side \in {"long", "LONG"}
    THEN 10 * call.current_price + 25 * call.atr_value
    ELSE 10 * call.current_price - 25 * call.atr_value
FormulaSL(call) ==
    IF call.position_side \in {"long", "LONG"}
    THEN 10 * call.current_price - 30 * call.atr_value
    ELSE 10 * call.current_price + 30 * call.atr_value

\* A price snapped to the step, and the step itself when the snapped price
\* is not positive.
SnappedOrStep(symbol, price10) ==
    IF Snapped(symbol, price10) > 0 THEN Snapped(symbol, price10)
    ELSE IF symbol = "BTCUSDT" THEN 10 ELSE 1

\* The worked example: ETHUSDT, entry 2000, ATR 20, a long.
IsExample(call) ==
    /\ call.made /\ call.coin_symbol = "ETHUSDT" /\ call.current_price = 200000
    /\ call.atr_value = 2000 /\ call.position_side = "long"

\* C26 as stated: calculate_tp_sl_prices returns entry +/- atr * multiplier
\* (tp on the profit side, sl on the loss side), each snapped to the symbol's
\* price step, and 2050 / 1940 for the worked example.
C26_FormulaSnapped ==
    tcall.made =>
        /\ tresult.tp_price = Snapped(tcall.coin_symbol, FormulaTP(tcall))
        /\ tresult.sl_price = Snapped(tcall.coin_symbol, FormulaSL(tcall))
        /\ IsExample(tcall) => (tresult.tp_price = 205000 /\ tresult.sl_price = 194000)

\* C26 amended: each returned price is the formula's price snapped to the
\* price step when that is positive and the price step itself otherwise;
\* the worked example gives 2050 / 1940.
C26_FormulaSnappedOrStep ==
    tcall.made =>
        /\ tresult.tp_price = SnappedOrStep(tcall.coin_symbol, FormulaTP(tcall))
        /\ tresult.sl_price = SnappedOrStep(tcall.coin_symbol, FormulaSL(tcall))
        /\ IsExample(tcall) => (tresult.tp_price = 205000 /\ tresult.sl_price = 194000)

\* C26 witness: the worked example has been calculated.
C26_Witness ==
    IsExample(tcall) /\ tresult = [tp_price |-> 205000, sl_price |-> 194000]

\* A market order that opens in the direction it is meant for, and one that
\* closes.
IsEntry(p) == p.type = "MARKET" /\ p.side = (IF p.intent = "long" THEN "BUY" ELSE "SELL")
IsClose(p) == p.type = "MARKET" /\ ~IsEntry(p)

\* The accepted close orders, sent before call i, for a listed position at
\* its reported size.
ClosedBefore(pos, i) ==
    {j \in DOMAIN sent : /\ j < i /\ IsClose(sent[j]) /\ sent[j].accepted
                         /\ sent[j].intent = pos.side /\ sent[j].quantity = pos.size}

C28_CloseRefused ==
    /\ Finished /\ frame.listed # << >> /\ frame.result.error = "close_opposite_failed"
    /\ \E j \in DOMAIN sent : IsClose(sent[j]) /\ ~sent[j].accepted

\* C29: every trailing stop that is built has its activation price strictly
\* on the profit side of the entry price, and every fallback stop its stop
\* price strictly on the loss side, whether the request supplied the level
\* or not.
C29_LevelsOnTheirSides ==
    \A i \in DOMAIN sent :
        /\ sent[i].type = "TRAILING_STOP_MARKET" =>
               /\ ~sent[i].nan
               /\ IF sent[i].intent = "long" THEN sent[i].activationPrice > sent[i].entry
                  ELSE sent[i].activationPrice < sent[i].entry
        /\ (sent[i].type = "STOP_MARKET" /\ ~sent[i].closePosition) =>
               /\ ~sent[i].nan
               /\ IF sent[i].intent = "long" THEN sent[i].stopPrice < sent[i].entry
                  ELSE sent[i].stopPrice > sent[i].entry

\* The same for the requests whose levels are numbers or absent.
C29_NumericLevelsOnTheirSides ==
    Top.level_nan = {} => C29_LevelsOnTheirSides

\* The calls of the flow whose leverage setting failed, and its orders.
LeverageFailed == {i \in DOMAIN sent : sent[i].type = "LEVERAGE" /\ sent[i].answer = "error"}
Orders == {i \in DOMAIN sent : sent[i].type \notin SettingTypes}

\* An "already set" answer counts as a success and the flow goes on to its
\* next call.
AlreadySetContinues ==
    \A i \in DOMAIN sent :
        sent[i].answer = "already_set" =>
            /\ sent[i].accepted
            /\ sent[i].type = "LEVERAGE" => (i < Len(sent) /\ sent[i + 1].type = "MARGIN_TYPE")
            /\ Finished => frame.result.error # "leverage_failed"

\* C31 as stated: a flow whose leverage-setting call failed for a reason
\* other than "already set" has sent no order, and an "already set" answer
\* for leverage or margin type is a success after which the flow continues.
C31_NoOrderWithFailedLeverage ==
    /\ LeverageFailed # {} => Orders = {}
    /\ AlreadySetContinues

\* What holds of both flows: nothing is sent after a leverage-setting call that failed
\* for a reason other than "already set", and the flow returns that
\* failure; an "already set" answer is a success after which the flow
\* continues.
C31_NoOrderAfterFailedLeverage ==
    /\ \A i \in LeverageFailed : i = Len(sent) /\ ~sent[i].accepted
    /\ (Finished /\ LeverageFailed # {}) => frame.result.error \in {"leverage_failed", "close_opposite_failed"}
    /\ AlreadySetContinues

\* C31 witness: leverage and margin type were both answered "already
\* set" and the entry order was sent and accepted.
C31_Witness ==
    /\ Finished /\ frame.entry_accepted
    /\ \E i, j \in DOMAIN sent :
          /\ sent[i].type = "LEVERAGE" /\ sent[i].answer = "already_set"
          /\ sent[j].type = "MARGIN_TYPE" /\ sent[j].answer = "already_set"

\* A flow whose leverage call failed has returned without an order.
C31_FailedWitness ==
    Finished /\ LeverageFailed # {} /\ Orders = {} /\ frame.result.error = "leverage_failed"

\* C32: the quantity of every market order is a multiple of the lot step and
\* does not exceed the raw quantity it was rounded from.
C32_SnappedDown ==
    \A i \in DOMAIN sent :
        sent[i].type = "MARKET" =>
            /\ sent[i].quantity % step_size = 0
            /\ sent[i].quantity <= sent[i].raw

\* Every market order's quantity is a multiple of the lot step.
C32_MultipleOfStep ==
    \A i \in DOMAIN sent : sent[i].type = "MARKET" => sent[i].quantity % step_size = 0

\* The deliveries that ask for an entry a master signal filter excludes.
AgainstFilter(d) ==
    \/ d.allow_long_only /\ d.direction = "short"
    \/ d.allow_short_only /\ d.direction = "long"

\* C34: while allow_long_only is set no short entry order is sent, and
\* while allow_short_only is set no long entry order, for standard and
\* trailing-stop signals alike; such an open request is answered
\* 'filtered'.
C34_FilteredEntriesNotSent ==
    \A i \in DOMAIN deliveries :
        AgainstFilter(deliveries[i]) =>
            /\ deliveries[i].entries = 0
            /\ deliveries[i].action = "open" => deliveries[i].answer = "filtered"

\* The same for the standard signals only.
C34_StandardFiltered ==
    \A i \in DOMAIN deliveries :
        (deliveries[i].flow = "standard" /\ AgainstFilter(deliveries[i])) =>
            /\ deliveries[i].entries = 0
            /\ deliveries[i].action = "open" => deliveries[i].answer = "filtered"

\* C38: no open request sends an order while the number of open positions
\* is at or above max_open_positions, for standard and trailing-stop
\* signals alike.
C38_NoOpenAtLimit ==
    \A i \in DOMAIN deliveries :
        (deliveries[i].action = "open" /\ deliveries[i].open_before >= max_open_positions) =>
            deliveries[i].orders = 0

\* The same for the standard signals only.
C38_StandardLimited ==
    \A i \in DOMAIN deliveries :
        (deliveries[i].flow = "standard" /\ deliveries[i].action = "open"
         /\ deliveries[i].open_before >= max_open_positions) =>
            deliveries[i].orders = 0

\* C35: place_trailing_stop_strategy sends an entry order only for action
\* "open"; with any other action no market order that opens or enlarges a
\* position is sent.
C35_EntryOnlyForOpen ==
    (Top.flow = "trailing" /\ Top.action # "open") =>
        \A i \in DOMAIN sent : ~IsEntry(sent[i])

\* The protective orders the exchange accepted during the flow.
ProtectiveAccepted ==
    Accepted("trailing") \cup Accepted("fallback") \cup Accepted("pair_tp") \cup Accepted("pair_sl")

\* The results that report the position as unprotected: the one that warns
\* that no stop protection was placed, and the one that says the trailing
\* stop failed and there is no fallback stop.
ReportsUnprotected(result) ==
    result.warning = "unprotected" \/ result.error = "no_fallback_stop"

\* C36: when a trailing-stop flow whose entry was accepted ends, its result
\* reports the position as unprotected if and only if no protective order
\* (trailing stop, fallback stop, TP or SL) was accepted during the flow.
C36_UnprotectedIffNoneAccepted ==
    (Finished /\ frame.flow = "trailing" /\ frame.entry_accepted) =>
        (ReportsUnprotected(frame.result) <=> (ProtectiveAccepted = {}))

\* One direction of it, which holds: a flow in which no protective order
\* was accepted reports the position as unprotected.
C36_NoneAcceptedReported ==
    (Finished /\ frame.flow = "trailing" /\ frame.entry_accepted /\ ProtectiveAccepted = {}) =>
        ReportsUnprotected(frame.result)

\* C37: while the global enable_trading or the symbol's resolved
\* enable_trading is false, no order of any kind, and no setting, is sent,
\* from the standard flow, the trailing-stop flow or a nested close.
C37_NoOrderWhileDisabled ==
    (Top.trading # "on" \/ frame.trading # "on") => sent = << >>

\* C37 witness: a trailing-stop request for a symbol whose own
\* enable_trading is false has returned its refusal with nothing sent.
C37_Witness ==
    /\ Finished
    /\ frame.flow = "trailing"
    /\ frame.trading = "coin_off"
    /\ frame.result.error = "trading_disabled"
    /\ sent = << >>

\* C39: the TP/SL multipliers calculate_tp_sl_prices uses are the ones
\* get_coin_config resolves from the same config for the same symbol: the
\* same coin-type key, the same coercion and the same defaults, an override
\* of 0 and a malformed override included.
C39_SameMultipliers ==
    (multipliers.made /\ cresult.raised = "") =>
        /\ multipliers.raised = ""
        /\ multipliers.atr_tp_multiplier = cresult.config.atr_tp_multiplier
        /\ multipliers.atr_sl_multiplier = cresult.config.atr_sl_multiplier

\* The overrides on which the two resolutions can differ: a multiplier
\* override that is falsy or that float() refuses, or a symbol whose coin
\* type the two extractions spell differently.
Divergent(call) ==
    \/ extract_coin_type(call.symbol) # _extract_coin_type(call.symbol)
    \/ \E key \in {"atr_tp_multiplier", "atr_sl_multiplier"} :
           /\ ConfigKey(extract_coin_type(call.symbol), key) \in DOMAIN call.config
           /\ LET v == call.config[ConfigKey(extract_coin_type(call.symbol), key)]
              IN  v # PyNone /\ (~PyTruth(v) \/ PyFloat(v).raised # "")

\* Apart from those, the two resolutions agree.
C39_SameMultipliersElsewhere ==
    (multipliers.made /\ cresult.raised = "" /\ ~Divergent(ccall)) =>
        /\ multipliers.raised = ""
        /\ multipliers.atr_tp_multiplier = cresult.config.atr_tp_multiplier
        /\ multipliers.atr_sl_multiplier = cresult.config.atr_sl_multiplier

====
